---- MODULE Spec2Model ----
(***************************************************************************)
(* Settings resolution engine of auto-slicer2: the dependency graph over   *)
(* value expressions, Kahn's topological order, expression evaluation with *)
(* pinned values, and the merge/prune pipeline of resolve_settings.        *)
(*                                                                         *)
(* A Python dict is modelled as a record [keys, val]: keys is the sequence *)
(* of keys in insertion order (the order every dict iteration follows) and *)
(* val the function from the key set to the values.  A dict whose order no *)
(* code path reads is modelled as a function.                              *)
(***************************************************************************)
EXTENDS Integers, Sequences, FiniteSets, TLC

VARIABLES
    dep_graph,      \* topological_order: the graph handed in (dict key -> set of keys)
    in_degree,      \* topological_order: in_degree dict
    adj,            \* topological_order: adj dict (dep -> list of dependents)
    queue,          \* topological_order: queue list
    order,          \* topological_order / evaluate_expressions: order list
    tpc,            \* topological_order: position in the function
    registry,       \* SettingsRegistry._settings: dict key -> SettingDefinition
    pinned_values,  \* evaluate_expressions: pinned_values argument (dict key -> str)
    config_defaults,\* evaluate_expressions / resolve_settings: config_defaults argument
    namespace,      \* evaluate_expressions: namespace dict
    pinned_keys,    \* evaluate_expressions: pinned_keys set
    result,         \* evaluate_expressions: the EvalResult (values, errors)
    pos,            \* evaluate_expressions: index of the loop `for key in order`
    epc,            \* evaluate_expressions: position in the function
    overrides,      \* resolve_settings: overrides argument (dict key -> str)
    forced_keys,    \* resolve_settings: forced_keys argument
    resolved,       \* resolve_settings: the resolved dict, returned at the end
    rpc,            \* resolve_settings: position in the function
    stl_is_stl,     \* slice_file: stl_path.suffix.lower() == ".stl"
    stl_scaled,     \* slice_file: scale_stl rewrote the file
    active_settings,\* slice_file: the table resolve_settings returned
    unknown,        \* slice_file: the dict find_unknown_gcode_tokens returned
    cmd,            \* slice_file: the -s key=value pairs of the engine command
    engine_input,   \* the pairs each run of the engine was given, in order
    archived,       \* slice_file: where the STL file was moved ("", "job", "errors")
    ret,            \* slice_file: the (success, message) returned, <<>> before
    spc,            \* slice_file: position in the function
    vdefn,          \* validate: the defn argument (a SettingDefinition)
    raw_value,      \* validate: the raw_value argument
    validation,     \* validate: the ValidationResult returned, or the exception
    vpc,            \* validate: position in the function
    all_settings,   \* SettingsRegistry._settings with every field of a definition
    layer,          \* _apply_overrides: the overrides argument of a child layer
    lpc,            \* _apply_overrides, load_config: position in the function
    defs,           \* the *.def.json documents of the definition directory, by name
    printer_definition, \* _load: the printer_definition argument
    chain,          \* _load: the list _resolve_chain returned
    lidx,           \* _load: index of the next child layer of chain to apply
    bounds_overrides,   \* load_config: extract_bounds_overrides(SETTINGS)
    ini             \* load_config: the entries of the BOUNDS_OVERRIDES section, in order

topo_vars == <<dep_graph, in_degree, adj, queue, order, tpc>>

eval_vars == <<registry, pinned_values, config_defaults, namespace, pinned_keys, result, pos, epc>>

resolve_vars == <<overrides, forced_keys, resolved, rpc>>

slice_vars ==
    <<stl_is_stl, stl_scaled, active_settings, unknown, cmd, engine_input, archived, ret, spc>>

validate_vars == <<vdefn, raw_value, validation, vpc>>

layer_vars ==
    <<all_settings, layer, lpc, defs, printer_definition, chain, lidx, bounds_overrides, ini>>

vars == <<topo_vars, eval_vars, resolve_vars, slice_vars, validate_vars, layer_vars>>

----------------------------------------------------------------------------
(* Generic helpers *)

Range(seq) == {seq[i] : i \in 1..Len(seq)}

\* index of x in seq (list.index); 0 when absent
IndexOf(seq, x) == IF x \in Range(seq) THEN CHOOSE i \in 1..Len(seq) : seq[i] = x ELSE 0

----------------------------------------------------------------------------
(* Bounds of the model *)

\* number of names a graph handed to topological_order may mention
NumNodes == 4

NodeNames == <<"a", "b", "c", "d", "e", "f", "g">>

GraphNames == {NodeNames[i] : i \in 1..NumNodes}

\* dependency sets: at most two names per key.  A graph of k < NumNodes keys
\* has the other names as dependencies that are no key of the graph.
DepSets == {{x, y} : x \in GraphNames, y \in GraphNames} \cup {{}}

\* number of dependency entries a graph may hold over all its keys
MaxEdges == 4

RECURSIVE SumOver(_, _)
SumOver(f, S) ==
    IF S = {} THEN 0
    ELSE LET x == CHOOSE y \in S : TRUE IN f[x] + SumOver(f, S \ {x})

EdgeCount(d) == SumOver([k \in DOMAIN d |-> Cardinality(d[k])], DOMAIN d)

\* number of settings of a registry handed to evaluate_expressions
NumKeys == 3

\* the registry's keys, in the order the definition file lists them
EvalKeys == [i \in 1..NumKeys |-> NodeNames[i]]

\* a key no registry defines
UnknownKey == "unknown"

\* number of settings whose type is not float
MaxNonFloat == 1

\* number of entries of a pinned_values dict, and of a config_defaults dict
MaxPinned == 1
MaxConfig == 1

\* the keys of a graph of k keys: a prefix of NodeNames, in insertion order
\* (any graph is one of these up to renaming, and the algorithm reads no name)
GraphKeys(k) == [i \in 1..k |-> NodeNames[i]]

----------------------------------------------------------------------------
(* topological_order, src/auto_slicer/settings_eval.py:100-133 *)

\* mutant of InDegreeOf: counts every dependency, graph key or not
InDegreeOf_AllDeps(g) == [k \in Range(g.keys) |-> Cardinality(g.val[k])]

\* in_degree[key] = len(deps & set(dep_graph.keys()))
InDegreeOf(g) == [k \in Range(g.keys) |-> Cardinality(g.val[k] \cap Range(g.keys))]

\* adj[dep] lists, in dict order, the keys whose deps hold dep
AdjOf(g) ==
    [d \in Range(g.keys) |-> SelectSeq(g.keys, LAMBDA k : d \in g.val[k])]

\* queue = [k for k, d in in_degree.items() if d == 0]
SeedQueue(g, indeg) == SelectSeq(g.keys, LAMBDA k : indeg[k] = 0)

\* the for loop over adj[node]: every dependent's in_degree drops by one
DecrementDependents(indeg, dependents) ==
    [k \in DOMAIN indeg |-> IF k \in Range(dependents) THEN indeg[k] - 1 ELSE indeg[k]]

\* ... and a dependent that reaches zero is appended to the queue, in adj order
NewlyReady(indeg, dependents) ==
    SelectSeq(dependents, LAMBDA k : indeg[k] - 1 = 0)

\* one turn of `while queue:` on the loop state [in_degree, queue, order]
KahnPop(st, adjacency) ==
    LET node == Head(st.queue)
        dependents == adjacency[node]
    IN  [in_degree |-> DecrementDependents(st.in_degree, dependents),
         queue     |-> Tail(st.queue) \o NewlyReady(st.in_degree, dependents),
         order     |-> Append(st.order, node)]

\* mutant of AppendRemaining: the nodes the queue never reached are dropped
AppendRemaining_Dropped(g, ord) == ord

\* for k in dep_graph: if k not in order: order.append(k)
AppendRemaining(g, ord) ==
    ord \o SelectSeq(g.keys, LAMBDA k : k \notin Range(ord))

RECURSIVE KahnRun(_, _)
KahnRun(st, adjacency) ==
    IF st.queue = <<>> THEN st ELSE KahnRun(KahnPop(st, adjacency), adjacency)

\* mutant of topological_order: the keys in dict order, unsorted
topological_order_DictOrder(g) == g.keys

\* the whole function, as evaluate_expressions calls it
topological_order(g) ==
    LET indeg == InDegreeOf(g)
        st0 == [in_degree |-> indeg, queue |-> SeedQueue(g, indeg), order |-> <<>>]
    IN  AppendRemaining(g, KahnRun(st0, AdjOf(g)).order)

----------------------------------------------------------------------------
(* Python values.  A value is a record [t, n, s]: t its Python type, n the   *)
(* number of an int, float or bool, s the text of a str.  Floats are the     *)
(* whole-valued floats: no modelled expression leaves them.                  *)

IntV(n)   == [t |-> "int",   n |-> n, s |-> ""]
FloatV(n) == [t |-> "float", n |-> n, s |-> ""]
BoolV(b)  == [t |-> "bool",  n |-> IF b THEN 1 ELSE 0, s |-> ""]
StrV(s)   == [t |-> "str",   n |-> 0, s |-> s]
NoneV     == [t |-> "NoneType", n |-> 0, s |-> ""]
FuncV(f)  == [t |-> "function", n |-> 0, s |-> f]

IsNumber(v) == v.t \in {"int", "float", "bool"}

\* bool(value): the truth value of a Python object
Truthy(v) ==
    CASE IsNumber(v) -> v.n # 0
      [] v.t = "str" -> v.s # ""
      [] v.t = "function" -> TRUE
      [] OTHER -> FALSE

\* str(value)
PyStr(v) ==
    CASE v.t = "int" -> ToString(v.n)
      [] v.t = "float" -> ToString(v.n) \o ".0"
      [] v.t = "bool" -> IF v.n = 1 THEN "True" ELSE "False"
      [] v.t = "str" -> v.s
      [] v.t = "function" -> "<function " \o v.s \o ">"
      [] OTHER -> "None"

\* the outcome of a Python evaluation: a value, or a raised exception with
\* its message str(e)
Ok(v) == [ok |-> TRUE, v |-> v, err |-> ""]
Raise(msg) == [ok |-> FALSE, v |-> NoneV, err |-> msg]

\* float(text) reads a decimal numeral.  The texts of the model are digit
\* strings, digit strings followed by ".0...0", and texts that are no number
\* at all; signs, exponents and fractions do not occur in them.
Digits == <<"0", "1", "2", "3", "4", "5", "6", "7", "8", "9">>

CharAt(text, i) == SubSeq(text, i, i)

IsDigit(ch) == \E d \in 1..10 : Digits[d] = ch

DigitValue(ch) == (CHOOSE d \in 1..10 : Digits[d] = ch) - 1

\* the position of the decimal point, or Len(text) + 1 when there is none
PointAt(text) ==
    IF \E i \in 1..Len(text) : CharAt(text, i) = "."
    THEN CHOOSE i \in 1..Len(text) :
            CharAt(text, i) = "." /\ \A j \in 1..(i - 1) : CharAt(text, j) # "."
    ELSE Len(text) + 1

IsNumeral(text) ==
    LET p == PointAt(text)
    IN  /\ p > 1
        /\ \A i \in 1..(p - 1) : IsDigit(CharAt(text, i))
        /\ p <= Len(text) => /\ p < Len(text)
                             /\ \A i \in (p + 1)..Len(text) : CharAt(text, i) = "0"

RECURSIVE DigitsValue(_, _)
DigitsValue(text, n) ==
    IF n = 0 THEN 0 ELSE 10 * DigitsValue(text, n - 1) + DigitValue(CharAt(text, n))

NumeralValue(text) == DigitsValue(text, PointAt(text) - 1)

\* float(value)
PyFloat(v) ==
    CASE IsNumber(v) -> Ok(FloatV(v.n))
      [] v.t = "str" ->
            IF IsNumeral(v.s) THEN Ok(FloatV(NumeralValue(v.s)))
            ELSE Raise("could not convert string to float: '" \o v.s \o "'")
      [] OTHER -> Raise("float() argument must be a string or a real number, not '" \o v.t \o "'")

----------------------------------------------------------------------------
(* _coerce, src/auto_slicer/settings_eval.py:136-149 *)

_coerce(value, setting_type) ==
    CASE setting_type = "int" ->
            IF PyFloat(value).ok THEN IntV(PyFloat(value).v.n) ELSE value
      [] setting_type = "float" ->
            IF PyFloat(value).ok THEN PyFloat(value).v ELSE value
      [] setting_type = "bool" -> BoolV(Truthy(value))
      [] setting_type = "str" -> StrV(PyStr(value))
      [] OTHER -> value

----------------------------------------------------------------------------
(* Value expressions.  An expression is held as its source text, as in the   *)
(* registry; Parse gives the syntax tree ast.parse / eval build for the      *)
(* texts the model uses.                                                     *)

Name(id) == [op |-> "Name", id |-> id]
Constant(v) == [op |-> "Constant", value |-> v]
BinOp(f, l, r) == [op |-> "BinOp", f |-> f, left |-> l, right |-> r]
IfExp(c, a, b) == [op |-> "IfExp", test |-> c, body |-> a, orelse |-> b]
Call(fn, args) == [op |-> "Call", func |-> fn, args |-> args]
SyntaxErr == [op |-> "SyntaxError"]

\* value_expression = None
NoExpr == "<None>"

Parse(text) ==
    CASE text = "a + 1" -> BinOp("+", Name("a"), Constant(IntV(1)))
      [] text = "b * 2" -> BinOp("*", Name("b"), Constant(IntV(2)))
      [] text = "10 // a" -> BinOp("//", Constant(IntV(10)), Name("a"))
      [] text = "resolveOrValue('c')" -> Call("resolveOrValue", <<Constant(StrV("c"))>>)
      [] text = "a" -> Name("a")
      [] text = "b" -> Name("b")
      [] text = "mystery" -> Name("mystery")
      [] text = "2" -> Constant(IntV(2))
      [] text = "3 if a else 7" -> IfExp(Name("a"), Constant(IntV(3)), Constant(IntV(7)))
      [] text = "machine_end_gcode + 1" ->
            BinOp("+", Name("machine_end_gcode"), Constant(IntV(1)))
      [] text = "machine_end_gcode" -> Name("machine_end_gcode")
      [] OTHER -> SyntaxErr     \* "", "this is not python %%%"

\* _SAFE_BUILTINS, lines 22-38
_SAFE_BUILTINS ==
    {"max", "min", "round", "int", "float", "bool", "str", "len", "sum", "map",
     "abs", "any", "all", "True", "False"}

\* the Cura helper functions evaluate_expressions adds to the globals
CuraHelpers == {"resolveOrValue", "extruderValue", "extruderValues"}

\* ast.walk: every Name node of the tree, the called function's name included
RECURSIVE NameNodes(_)
NameNodes(e) ==
    CASE e.op = "Name" -> {e.id}
      [] e.op = "BinOp" -> NameNodes(e.left) \cup NameNodes(e.right)
      [] e.op = "IfExp" -> NameNodes(e.test) \cup NameNodes(e.body) \cup NameNodes(e.orelse)
      [] e.op = "Call" -> {e.func} \cup UNION {NameNodes(e.args[i]) : i \in 1..Len(e.args)}
      [] OTHER -> {}

IsStrConstant(e) == e.op = "Constant" /\ e.value.t = "str"

\* lines 56-73: the string-constant key argument of a helper call (and the
\* bare name given as extruderValue's first argument)
CallDeps(e) ==
    CASE e.func = "resolveOrValue" /\ Len(e.args) >= 1 ->
            IF IsStrConstant(e.args[1]) THEN {e.args[1].value.s} ELSE {}
      [] e.func = "extruderValue" /\ Len(e.args) >= 2 ->
            (IF IsStrConstant(e.args[2]) THEN {e.args[2].value.s} ELSE {})
            \cup (IF e.args[1].op = "Name" /\ e.args[1].id \notin _SAFE_BUILTINS
                  THEN {e.args[1].id} ELSE {})
      [] e.func = "extruderValues" /\ Len(e.args) >= 1 ->
            IF IsStrConstant(e.args[1]) THEN {e.args[1].value.s} ELSE {}
      [] OTHER -> {}

RECURSIVE HelperArgs(_)
HelperArgs(e) ==
    CASE e.op = "BinOp" -> HelperArgs(e.left) \cup HelperArgs(e.right)
      [] e.op = "IfExp" -> HelperArgs(e.test) \cup HelperArgs(e.body) \cup HelperArgs(e.orelse)
      [] e.op = "Call" -> CallDeps(e) \cup UNION {HelperArgs(e.args[i]) : i \in 1..Len(e.args)}
      [] OTHER -> {}

\* extract_deps, lines 41-75
extract_deps(expr) ==
    LET tree == Parse(expr)
    IN  IF tree.op = "SyntaxError" THEN {}
        ELSE {id \in NameNodes(tree) : id \notin _SAFE_BUILTINS /\ id # "math"}
             \cup HelperArgs(tree)

----------------------------------------------------------------------------
(* eval(): the Python semantics of the operators the texts use *)

NumberResult(l, r, n) == IF l.t = "float" \/ r.t = "float" THEN FloatV(n) ELSE IntV(n)

RECURSIVE Repeat(_, _)
Repeat(s, n) == IF n <= 0 THEN "" ELSE s \o Repeat(s, n - 1)

IsIntLike(v) == v.t \in {"int", "bool"}

BinApply(f, l, r) ==
    CASE f = "+" /\ IsNumber(l) /\ IsNumber(r) -> Ok(NumberResult(l, r, l.n + r.n))
      [] f = "+" /\ l.t = "str" /\ r.t = "str" -> Ok(StrV(l.s \o r.s))
      [] f = "*" /\ IsNumber(l) /\ IsNumber(r) -> Ok(NumberResult(l, r, l.n * r.n))
      [] f = "*" /\ l.t = "str" /\ IsIntLike(r) -> Ok(StrV(Repeat(l.s, r.n)))
      [] f = "*" /\ IsIntLike(l) /\ r.t = "str" -> Ok(StrV(Repeat(r.s, l.n)))
      [] f = "//" /\ IsNumber(l) /\ IsNumber(r) ->
            IF r.n = 0
            THEN Raise(IF l.t = "float" \/ r.t = "float"
                       THEN "float floor division by zero"
                       ELSE "integer division or modulo by zero")
            ELSE Ok(NumberResult(l, r, l.n \div r.n))
      [] f = "+" /\ l.t = "str" ->
            Raise("can only concatenate str (not \"" \o r.t \o "\") to str")
      [] OTHER -> Raise("unsupported operand type(s) for " \o f
                        \o ": '" \o l.t \o "' and '" \o r.t \o "'")

\* ns is the namespace dict (a function from its keys); globals the names of
\* the functions the evaluation's globals hold
RECURSIVE Eval(_, _, _)
Eval(e, ns, globals) ==
    CASE e.op = "Constant" -> Ok(e.value)
      [] e.op = "Name" ->
            IF e.id \in DOMAIN ns THEN Ok(ns[e.id])
            ELSE IF e.id \in globals THEN Ok(FuncV(e.id))
            ELSE Raise("name '" \o e.id \o "' is not defined")
      [] e.op = "BinOp" ->
            LET l == Eval(e.left, ns, globals)
                r == Eval(e.right, ns, globals)
            IN  IF ~l.ok THEN l ELSE IF ~r.ok THEN r ELSE BinApply(e.f, l.v, r.v)
      [] e.op = "IfExp" ->
            LET c == Eval(e.test, ns, globals)
            IN  IF ~c.ok THEN c
                ELSE IF Truthy(c.v) THEN Eval(e.body, ns, globals)
                ELSE Eval(e.orelse, ns, globals)
      [] e.op = "Call" ->
            \* a name of the namespace shadows the function and is not callable;
            \* resolveOrValue(key) is namespace.get(key); the texts call nothing else
            IF e.func \in DOMAIN ns
            THEN Raise("'" \o ns[e.func].t \o "' object is not callable")
            ELSE IF e.func \notin globals
            THEN Raise("name '" \o e.func \o "' is not defined")
            ELSE LET k == Eval(e.args[1], ns, globals)
                 IN  IF ~k.ok THEN k
                     ELSE IF k.v.t = "str" /\ k.v.s \in DOMAIN ns THEN Ok(ns[k.v.s])
                     ELSE Ok(NoneV)
      [] OTHER -> Raise("invalid syntax (<string>, line 1)")

\* eval(text, eval_globals, local_ns)
PyEval(text, ns, globals) == Eval(Parse(text), ns, globals)

----------------------------------------------------------------------------
(* The registry and the dependency graph *)

\* SettingDefinition: the fields evaluation and resolution read
SettingDefinition(setting_type, default_value, value_expression) ==
    [setting_type |-> setting_type, default_value |-> default_value,
     value_expression |-> value_expression]

\* registry.keys()
RegKeys(reg) == Range(reg.keys)

HasExpression(reg, k) == reg.val[k].value_expression # NoExpr

\* every extracted name kept, a key of the table or not
build_dep_graph_AllNames(reg) ==
    [keys |-> SelectSeq(reg.keys, LAMBDA k : HasExpression(reg, k)),
     val  |-> [k \in {x \in RegKeys(reg) : HasExpression(reg, x)} |->
                 extract_deps(reg.val[k].value_expression)]]

\* build_dep_graph, lines 78-88
build_dep_graph(reg) ==
    [keys |-> SelectSeq(reg.keys, LAMBDA k : HasExpression(reg, k)),
     val  |-> [k \in {x \in RegKeys(reg) : HasExpression(reg, x)} |->
                 extract_deps(reg.val[k].value_expression) \cap RegKeys(reg)]]

----------------------------------------------------------------------------
(* evaluate_expressions, src/auto_slicer/settings_eval.py:152-226 *)

\* lines 198-202: the functions the evaluation's globals hold
EvalGlobals == _SAFE_BUILTINS \cup CuraHelpers \cup {"math"}

\* lines 170-173 and 177-181: overlay a dict of strings, coerced to each key's type
Overlay(reg, ns, strings) ==
    [k \in DOMAIN ns |->
        IF k \in DOMAIN strings
        THEN _coerce(StrV(strings[k]), reg.val[k].setting_type)
        ELSE ns[k]]

\* lines 165-181: defaults, then config defaults, then pinned values
InitialNamespace(reg, pinned, config) ==
    Overlay(reg,
            Overlay(reg, [k \in RegKeys(reg) |-> reg.val[k].default_value], config),
            pinned)

\* lines 176-181
PinnedKeys(reg, pinned) == DOMAIN pinned \cap RegKeys(reg)

\* mutant of IsSkipped: a pinned key is evaluated like any other
IsSkipped_PinnedEvaluated(reg, pinned, key) ==
    reg.val[key].value_expression \in {NoExpr, ""}

\* lines 206-211: the keys the loop passes over
IsSkipped(reg, pinned, key) ==
    \/ key \in pinned
    \/ reg.val[key].value_expression \in {NoExpr, ""}

\* lines 205-219: the body of `for key in order` on the state [namespace, errors]
EvalKey(reg, pinned, st, key) ==
    IF IsSkipped(reg, pinned, key) THEN st
    ELSE LET raw == PyEval(reg.val[key].value_expression, st.namespace, EvalGlobals)
         IN  IF raw.ok
             THEN [st EXCEPT !.namespace =
                      [st.namespace EXCEPT ![key] = _coerce(raw.v, reg.val[key].setting_type)]]
             ELSE [st EXCEPT !.errors =
                      [k \in DOMAIN st.errors \cup {key} |->
                          IF k = key THEN raw.err ELSE st.errors[k]]]

\* mutant of CollectValues: a key that failed is collected too
CollectValues_WithFailed(graph, pinned, st) ==
    [k \in {x \in Range(graph.keys) : x \notin pinned} |-> st.namespace[k]]

\* lines 222-224: the values of the graph's keys that are not pinned and did not fail
CollectValues(graph, pinned, st) ==
    [k \in {x \in Range(graph.keys) : x \notin pinned /\ x \notin DOMAIN st.errors} |->
        st.namespace[k]]

RECURSIVE EvalLoop(_, _, _, _, _)
EvalLoop(reg, pinned, st, ord, i) ==
    IF i > Len(ord) THEN st
    ELSE EvalLoop(reg, pinned, EvalKey(reg, pinned, st, ord[i]), ord, i + 1)

\* the whole function, as resolve_settings calls it
evaluate_expressions(reg, pinned, config) ==
    LET graph == build_dep_graph(reg)
        st0 == [namespace |-> InitialNamespace(reg, pinned, config), errors |-> <<>>]
        st == EvalLoop(reg, PinnedKeys(reg, pinned), st0, topological_order(graph), 1)
    IN  [values |-> CollectValues(graph, PinnedKeys(reg, pinned), st),
         errors |-> st.errors]

----------------------------------------------------------------------------
(* resolve_settings, src/auto_slicer/slicer.py:15-140 *)

\* line 15
GCODE_SETTINGS == {"machine_start_gcode", "machine_end_gcode"}

\* line 16
SCALE_KEYS == {"scale", "scale_x", "scale_y", "scale_z"}

\* mutant of DefaultsAfterMerge: the update is applied to the argument itself
DefaultsAfterMerge_InPlace(defaults, over) ==
    [k \in DOMAIN defaults \cup DOMAIN over |->
        IF k \in DOMAIN over THEN over[k] ELSE defaults[k]]

\* merge_settings, line 75: the caller's defaults dict after the call; the
\* update of line 76 goes to the copy
DefaultsAfterMerge(defaults, over) == defaults

\* mutant of merge_settings: the defaults win over the overrides
merge_settings_DefaultsWin(defaults, over) ==
    [k \in DOMAIN defaults \cup DOMAIN over |->
        IF k \in DOMAIN defaults THEN defaults[k] ELSE over[k]]

\* merge_settings, lines 73-77
merge_settings(defaults, over) ==
    [k \in DOMAIN defaults \cup DOMAIN over |->
        IF k \in DOMAIN over THEN over[k] ELSE defaults[k]]

\* _try_number, lines 45-51: a numeric string becomes a number (an int when
\* it is whole), any other string stays
_try_number(value) ==
    IF IsNumeral(value) THEN IntV(NumeralValue(value)) ELSE StrV(value)

\* A gcode text as re.sub and re.finditer read it with the pattern
\* \{([^}]+)\}: the literal stretches and the placeholders, in order.  A
\* match starts at a "{" whose next "}" is at least two characters on; the
\* matches are the leftmost ones and do not overlap.
Lit(text) == [tok |-> FALSE, text |-> text]
Tok(expr) == [tok |-> TRUE, text |-> expr]

\* the position of the first "}" after position i, 0 when there is none
NextClose(text, i) ==
    IF \E j \in (i + 1)..Len(text) : CharAt(text, j) = "}"
    THEN CHOOSE j \in (i + 1)..Len(text) :
            CharAt(text, j) = "}" /\ \A m \in (i + 1)..(j - 1) : CharAt(text, m) # "}"
    ELSE 0

MatchAt(text, i) == CharAt(text, i) = "{" /\ NextClose(text, i) >= i + 2

\* the position of the first match at or after position from, 0 when none
FirstMatch(text, from) ==
    IF \E i \in from..Len(text) : MatchAt(text, i)
    THEN CHOOSE i \in from..Len(text) :
            MatchAt(text, i) /\ \A m \in from..(i - 1) : ~MatchAt(text, m)
    ELSE 0

RECURSIVE SegmentsFrom(_, _)
SegmentsFrom(text, from) ==
    LET i == FirstMatch(text, from)
    IN  IF i = 0
        THEN IF from > Len(text) THEN <<>> ELSE <<Lit(SubSeq(text, from, Len(text)))>>
        ELSE (IF i > from THEN <<Lit(SubSeq(text, from, i - 1))>> ELSE <<>>)
             \o <<Tok(SubSeq(text, i + 1, NextClose(text, i) - 1))>>
             \o SegmentsFrom(text, NextClose(text, i) + 1)

Segments(gcode) == SegmentsFrom(gcode, 1)

\* lines 21-22: the globals of a gcode expression
GcodeGlobals == _SAFE_BUILTINS \cup {"math"}

\* replace, lines 35-40: the value's string, or the placeholder as it stands
ReplaceToken(expr, ns) ==
    LET r == PyEval(expr, ns, GcodeGlobals)
    IN  IF r.ok THEN PyStr(r.v) ELSE "{" \o expr \o "}"

RECURSIVE ExpandSegments(_, _, _)
ExpandSegments(segs, ns, i) ==
    IF i > Len(segs) THEN ""
    ELSE (IF segs[i].tok THEN ReplaceToken(segs[i].text, ns) ELSE segs[i].text)
         \o ExpandSegments(segs, ns, i + 1)

\* expand_gcode_tokens, lines 26-42
expand_gcode_tokens(gcode, settings) ==
    ExpandSegments(Segments(gcode), [k \in DOMAIN settings |-> _try_number(settings[k])], 1)

\* line 102
\* only the user overrides pinned
PinnedOf_OverridesOnly(config, over) == over

PinnedOf(config, over) == merge_settings(config, over)

\* lines 106-108: the computed values as strings, the pinned values on top
ComputedAndPinned(values, pinned) ==
    [k \in DOMAIN values \cup DOMAIN pinned |->
        IF k \in DOMAIN pinned THEN pinned[k] ELSE PyStr(values[k])]

InRegistry(reg, k) == k \in RegKeys(reg)

\* lines 112-116: a gcode setting not yet resolved is pulled from the registry
GcodePulled(reg, res) ==
    {k \in GCODE_SETTINGS :
        k \notin DOMAIN res /\ InRegistry(reg, k) /\ reg.val[k].default_value # NoneV}

WithGcodeDefaults(reg, res) ==
    [k \in DOMAIN res \cup GcodePulled(reg, res) |->
        IF k \in DOMAIN res THEN res[k] ELSE PyStr(reg.val[k].default_value)]

\* mutant of TokenLookup: a registry default wins over the resolved value
TokenLookup_DefaultsWin(reg, res) ==
    [k \in {x \in RegKeys(reg) : reg.val[x].default_value # NoneV} \cup DOMAIN res |->
        IF k \in RegKeys(reg) /\ reg.val[k].default_value # NoneV
        THEN PyStr(reg.val[k].default_value) ELSE res[k]]

\* lines 121-123: the registry defaults as strings, the resolved values on top
TokenLookup(reg, res) ==
    [k \in {x \in RegKeys(reg) : reg.val[x].default_value # NoneV} \cup DOMAIN res |->
        IF k \in DOMAIN res THEN res[k] ELSE PyStr(reg.val[k].default_value)]

\* lines 124-126
WithGcodeExpanded(reg, res) ==
    [k \in DOMAIN res |->
        IF k \in GCODE_SETTINGS THEN expand_gcode_tokens(res[k], TokenLookup(reg, res))
        ELSE res[k]]

\* mutant of IsDropped: nothing is dropped
IsDropped_Never(reg, res, over, forced, k) == FALSE

\* mutant of IsDropped: a gcode setting equal to its default is dropped too
IsDropped_GcodeToo(reg, res, over, forced, k) ==
    /\ InRegistry(reg, k)
    /\ PyStr(reg.val[k].default_value) = res[k]
    /\ k \notin DOMAIN over
    /\ k \notin forced

\* lines 129-134: the test that deletes a key
IsDropped(reg, res, over, forced, k) ==
    /\ k \notin GCODE_SETTINGS
    /\ InRegistry(reg, k)
    /\ PyStr(reg.val[k].default_value) = res[k]
    /\ k \notin DOMAIN over
    /\ k \notin forced

WithoutDefaults(reg, res, over, forced) ==
    [k \in {x \in DOMAIN res : ~IsDropped(reg, res, over, forced, x)} |-> res[k]]

\* the scale keys left in the table
WithoutScaleKeys_Kept(res) == res

\* lines 137-138
WithoutScaleKeys(res) == [k \in DOMAIN res \ SCALE_KEYS |-> res[k]]

\* lines 106-126: the table before the pruning
ResolvedBeforePruning(reg, values, pinned) ==
    WithGcodeExpanded(reg, WithGcodeDefaults(reg, ComputedAndPinned(values, pinned)))

\* lines 128-140: the pruning and the scale keys
Pruned(reg, res, over, forced) == WithoutScaleKeys(WithoutDefaults(reg, res, over, forced))

\* the whole function
resolve_settings(reg, config, over, forced) ==
    LET pinned == PinnedOf(config, over)
        res == evaluate_expressions(reg, pinned, config)
    IN  Pruned(reg, ResolvedBeforePruning(reg, res.values, pinned), over, forced)

----------------------------------------------------------------------------
(* Strings and numbers of the validator, src/auto_slicer/settings_validate.py *)

UpperLetters == "ABCDEFGHIJKLMNOPQRSTUVWXYZ"
LowerLetters == "abcdefghijklmnopqrstuvwxyz"

LowerChar(ch) ==
    IF \E i \in 1..26 : CharAt(UpperLetters, i) = ch
    THEN CharAt(LowerLetters, CHOOSE i \in 1..26 : CharAt(UpperLetters, i) = ch)
    ELSE ch

\* str.lower() on ASCII text
RECURSIVE PyLower(_)
PyLower(text) ==
    IF text = "" THEN ""
    ELSE LowerChar(CharAt(text, 1)) \o PyLower(SubSeq(text, 2, Len(text)))

IsSpace(ch) == ch \in {" ", "\t", "\n"}

\* str.strip()
RECURSIVE PyStrip(_)
PyStrip(text) ==
    IF text = "" THEN ""
    ELSE IF IsSpace(CharAt(text, 1)) THEN PyStrip(SubSeq(text, 2, Len(text)))
    ELSE IF IsSpace(CharAt(text, Len(text))) THEN PyStrip(SubSeq(text, 1, Len(text) - 1))
    ELSE text

\* A number of the validator is [t, kind, m]: t is "int" or "float", kind is
\* "fin", "inf", "-inf" or "nan", and a finite number is m / Scale.  Scale
\* gives four decimal places, the most a candidate or bound of the model has.
FracDigits == 4

RECURSIVE Pow10(_)
Pow10(n) == IF n = 0 THEN 1 ELSE 10 * Pow10(n - 1)

Scale == Pow10(FracDigits)

Fin(t, m) == [t |-> t, kind |-> "fin", m |-> m]
Inf == [t |-> "float", kind |-> "inf", m |-> 0]
NaN == [t |-> "float", kind |-> "nan", m |-> 0]

\* defn.minimum_value is None
NoBound == [t |-> "NoneType", kind |-> "none", m |-> 0]

\* x < y and x > y on floats; every comparison with nan is false
Less(x, y) ==
    CASE x.kind = "nan" \/ y.kind = "nan" -> FALSE
      [] x.kind = "fin" /\ y.kind = "fin" -> x.m < y.m
      [] x.kind = "-inf" -> y.kind # "-inf"
      [] y.kind = "inf" -> x.kind # "inf"
      [] OTHER -> FALSE

Greater(x, y) == Less(y, x)

AllDigits(text) == text # "" /\ \A i \in 1..Len(text) : IsDigit(CharAt(text, i))

\* the digits after the point as a count of 1/Scale
FractionValue(text) == DigitsValue(text, Len(text)) * Pow10(FracDigits - Len(text))

\* the sign a numeral opens with, and the numeral after it
SignOf(text) == IF text # "" /\ CharAt(text, 1) = "-" THEN -1 ELSE 1

Unsigned(text) ==
    IF text # "" /\ CharAt(text, 1) \in {"-", "+"} THEN SubSeq(text, 2, Len(text)) ELSE text

\* int(raw): surrounding whitespace, an optional sign and decimal digits
PyIntParse(raw) ==
    LET body == Unsigned(PyStrip(raw))
    IN  IF AllDigits(body)
        THEN [ok |-> TRUE,
              v |-> Fin("int", SignOf(PyStrip(raw)) * DigitsValue(body, Len(body)) * Scale)]
        ELSE [ok |-> FALSE, v |-> NaN]

\* float(raw): surrounding whitespace, an optional sign, then digits with an
\* optional fraction of at most FracDigits digits, or inf, or nan; 1e999 is
\* beyond the largest float and reads as inf.  Anything else is a ValueError.
PyFloatParse(raw) ==
    LET text == PyLower(PyStrip(raw))
        body == Unsigned(text)
        p == PointAt(body)
        whole == SubSeq(body, 1, p - 1)
        frac == SubSeq(body, p + 1, Len(body))
    IN  CASE body \in {"inf", "infinity", "1e999"} ->
                [ok |-> TRUE, v |-> IF SignOf(text) = 1 THEN Inf ELSE [Inf EXCEPT !.kind = "-inf"]]
          [] body = "nan" -> [ok |-> TRUE, v |-> NaN]
          [] AllDigits(body) ->
                [ok |-> TRUE, v |-> Fin("float", SignOf(text) * DigitsValue(body, Len(body)) * Scale)]
          [] p <= Len(body) /\ AllDigits(whole) /\ AllDigits(frac) /\ Len(frac) <= FracDigits ->
                [ok |-> TRUE,
                 v |-> Fin("float", SignOf(text) * (DigitsValue(whole, Len(whole)) * Scale
                                                   + FractionValue(frac)))]
          [] OTHER -> [ok |-> FALSE, v |-> NaN]

\* the digits of a fraction, trailing zeros dropped, at least one kept
RECURSIVE FractionText(_, _)
FractionText(frac, width) ==
    IF width = 1 \/ frac % Pow10(width - 1) = 0
    THEN ToString(frac \div Pow10(width - 1))
    ELSE ToString(frac \div Pow10(width - 1))
         \o FractionText(frac % Pow10(width - 1), width - 1)

Abs(n) == IF n < 0 THEN -n ELSE n

\* str(x) of an int or a float, as an f-string prints it
NumberText(x) ==
    CASE x.kind = "inf" -> "inf"
      [] x.kind = "-inf" -> "-inf"
      [] x.kind = "nan" -> "nan"
      [] x.t = "int" -> ToString(x.m \div Scale)
      [] OTHER -> (IF x.m < 0 THEN "-" ELSE "") \o ToString(Abs(x.m) \div Scale) \o "."
                  \o FractionText(Abs(x.m) % Scale, FracDigits)

----------------------------------------------------------------------------
(* topological_order step by step *)

EmptyRegistry == [keys |-> <<>>, val |-> <<>>]

EmptyResult == [values |-> <<>>, errors |-> <<>>]

\* no evaluate_expressions call is in progress
EvalIdle ==
    /\ registry = EmptyRegistry
    /\ pinned_values = <<>>
    /\ config_defaults = <<>>
    /\ namespace = <<>>
    /\ pinned_keys = {}
    /\ result = EmptyResult
    /\ pos = 0
    /\ epc = "idle"

\* no resolve_settings call is in progress
ResolveIdle ==
    /\ overrides = <<>>
    /\ forced_keys = {}
    /\ resolved = <<>>
    /\ rpc = "idle"

\* no slice_file call is in progress
SliceIdle ==
    /\ stl_is_stl = FALSE
    /\ stl_scaled = FALSE
    /\ active_settings = <<>>
    /\ unknown = [keys |-> <<>>, val |-> <<>>]
    /\ cmd = <<>>
    /\ engine_input = <<>>
    /\ archived = ""
    /\ ret = <<>>
    /\ spc = "idle"

\* no validate call is in progress
ValidateIdle ==
    /\ vdefn = <<>>
    /\ raw_value = ""
    /\ validation = <<>>
    /\ vpc = "idle"

\* no layer is being applied
LoadIdle ==
    /\ defs = <<>>
    /\ printer_definition = ""
    /\ chain = <<>>
    /\ lidx = 0
    /\ bounds_overrides = <<>>
    /\ ini = <<>>

LayerIdle ==
    /\ all_settings = <<>>
    /\ layer = <<>>
    /\ lpc = "idle"
    /\ LoadIdle

TopoInit ==
    /\ SliceIdle
    /\ ValidateIdle
    /\ LayerIdle
    /\ EvalIdle
    /\ ResolveIdle
    /\ \E k \in 0..NumNodes :
         \E d \in [Range(GraphKeys(k)) -> DepSets] :
            /\ EdgeCount(d) <= MaxEdges
            /\ dep_graph = [keys |-> GraphKeys(k), val |-> d]
    /\ in_degree = <<>>
    /\ adj = <<>>
    /\ queue = <<>>
    /\ order = <<>>
    /\ tpc = "start"

\* lines 103-118: in_degree, adj, queue, order = []
TopoSetup ==
    /\ tpc = "start"
    /\ in_degree' = InDegreeOf(dep_graph)
    /\ adj' = AdjOf(dep_graph)
    /\ queue' = SeedQueue(dep_graph, InDegreeOf(dep_graph))
    /\ order' = <<>>
    /\ tpc' = "loop"
    /\ UNCHANGED <<dep_graph, eval_vars>>
    /\ UNCHANGED resolve_vars
    /\ UNCHANGED slice_vars
    /\ UNCHANGED validate_vars
    /\ UNCHANGED layer_vars

\* lines 120-126: one iteration of the while loop
TopoPop ==
    /\ tpc = "loop"
    /\ queue # <<>>
    /\ LET st == KahnPop([in_degree |-> in_degree, queue |-> queue, order |-> order], adj)
       IN  /\ in_degree' = st.in_degree
           /\ queue' = st.queue
           /\ order' = st.order
    /\ UNCHANGED <<dep_graph, adj, tpc, eval_vars>>
    /\ UNCHANGED resolve_vars
    /\ UNCHANGED slice_vars
    /\ UNCHANGED validate_vars
    /\ UNCHANGED layer_vars

\* lines 128-133: the queue is empty; append what is left and return
TopoFinish ==
    /\ tpc = "loop"
    /\ queue = <<>>
    /\ order' = AppendRemaining(dep_graph, order)
    /\ tpc' = "done"
    /\ UNCHANGED <<dep_graph, in_degree, adj, queue, eval_vars>>
    /\ UNCHANGED resolve_vars
    /\ UNCHANGED slice_vars
    /\ UNCHANGED validate_vars
    /\ UNCHANGED layer_vars

TopoNext == TopoSetup \/ TopoPop \/ TopoFinish

SpecTopo == TopoInit /\ [][TopoNext]_vars

\* the function runs to its return: nothing suspends it
SpecTopoFair == TopoInit /\ [][TopoNext]_vars /\ WF_vars(TopoNext)

----------------------------------------------------------------------------
(* evaluate_expressions step by step *)

\* the (type, default) a setting of each type has
FloatSetting == <<"float", FloatV(5)>>
NonFloatSettings == {<<"int", IntV(0)>>, <<"bool", BoolV(TRUE)>>, <<"str", StrV("x")>>}

\* the value expressions a setting may carry
ExprChoices ==
    {NoExpr, "", "a + 1", "b * 2", "resolveOrValue('c')", "10 // a",
     "this is not python %%%"}

\* the strings a pinned (user) value and a config default may be
RawStrings == {"3", "abc"}
ConfigStrings == {"4"}

\* the dicts of at most n entries with keys in K and values in V
SmallDomains(K, n) == {D \in SUBSET K : Cardinality(D) <= n}

RegistryOf(keys, odd, exprs) ==
    [keys |-> keys,
     val  |-> [k \in Range(keys) |->
                 LET td == IF k \in DOMAIN odd THEN odd[k] ELSE FloatSetting
                 IN  SettingDefinition(td[1], td[2], exprs[k])]]

\* no topological_order call is traced step by step
TopoIdle ==
    /\ in_degree = <<>>
    /\ adj = <<>>
    /\ queue = <<>>
    /\ tpc = "idle"

EvalInit ==
    /\ SliceIdle
    /\ ValidateIdle
    /\ LayerIdle
    /\ TopoIdle
    /\ ResolveIdle
    /\ dep_graph = [keys |-> <<>>, val |-> <<>>]
    /\ order = <<>>
    /\ \E O \in SmallDomains(Range(EvalKeys), MaxNonFloat) :
         \E odd \in [O -> NonFloatSettings] :
           \E exprs \in [Range(EvalKeys) -> ExprChoices] :
              registry = RegistryOf(EvalKeys, odd, exprs)
    /\ \E P \in SmallDomains(Range(EvalKeys) \cup {UnknownKey}, MaxPinned) :
         pinned_values \in [P -> RawStrings]
    /\ \E C \in SmallDomains(Range(EvalKeys) \cup {UnknownKey}, MaxConfig) :
         config_defaults \in [C -> ConfigStrings]
    /\ namespace = <<>>
    /\ pinned_keys = {}
    /\ result = EmptyResult
    /\ pos = 0
    /\ epc = "start"

\* lines 162-202: the namespace, the pinned keys, the graph and the order
EvalSetup ==
    /\ epc = "start"
    /\ namespace' = InitialNamespace(registry, pinned_values, config_defaults)
    /\ pinned_keys' = PinnedKeys(registry, pinned_values)
    /\ dep_graph' = build_dep_graph(registry)
    /\ order' = topological_order(build_dep_graph(registry))
    /\ pos' = 1
    /\ epc' = "loop"
    /\ UNCHANGED <<registry, pinned_values, config_defaults, result>>
    /\ UNCHANGED <<in_degree, adj, queue, tpc>>
    /\ UNCHANGED resolve_vars
    /\ UNCHANGED slice_vars
    /\ UNCHANGED validate_vars
    /\ UNCHANGED layer_vars

\* lines 205-219: one iteration of `for key in order`
EvalStep ==
    /\ epc = "loop"
    /\ pos <= Len(order)
    /\ LET st == EvalKey(registry, pinned_keys,
                         [namespace |-> namespace, errors |-> result.errors], order[pos])
       IN  /\ namespace' = st.namespace
           /\ result' = [result EXCEPT !.errors = st.errors]
    /\ pos' = pos + 1
    /\ UNCHANGED <<registry, pinned_values, config_defaults, pinned_keys, epc>>
    /\ UNCHANGED topo_vars
    /\ UNCHANGED resolve_vars
    /\ UNCHANGED slice_vars
    /\ UNCHANGED validate_vars
    /\ UNCHANGED layer_vars

\* lines 221-226: collect the computed values and return
EvalCollect ==
    /\ epc = "loop"
    /\ pos > Len(order)
    /\ result' = [result EXCEPT !.values =
                     CollectValues(dep_graph, pinned_keys,
                                   [namespace |-> namespace, errors |-> result.errors])]
    /\ epc' = "done"
    /\ UNCHANGED <<registry, pinned_values, config_defaults, namespace, pinned_keys, pos>>
    /\ UNCHANGED topo_vars
    /\ UNCHANGED resolve_vars
    /\ UNCHANGED slice_vars
    /\ UNCHANGED validate_vars
    /\ UNCHANGED layer_vars

EvalNext == EvalSetup \/ EvalStep \/ EvalCollect

SpecEval == EvalInit /\ [][EvalNext]_vars

----------------------------------------------------------------------------
(* resolve_settings step by step *)

\* most keys forced_keys holds
MaxForced == 1

StartGcode == "machine_start_gcode"
EndGcode == "machine_end_gcode"
ScaleKey == "scale"

\* the (type, default) of the settings "a" and "b"
SettingsOfA == {<<"float", FloatV(5)>>, <<"int", IntV(0)>>}
SettingsOfB == {<<"float", FloatV(6)>>, <<"int", IntV(0)>>}
ExprsOfB == {NoExpr, "a + 1", "10 // a"}

\* the start gcode of the registry: not defined (<<>>), or defined with the
\* default_value d (<<d>>)
GcodeDefaults == {NoneV, StrV("G1 Y{a}"), StrV("G28"), StrV("M140 S{b} T{mystery}")}
GcodeChoices == {<<>>} \cup {<<d>> : d \in GcodeDefaults}

\* the scale setting of the registry: not defined, or its value_expression
NotDefined == "<not defined>"
ScaleExprs == {NoExpr, "a + 1"}

\* the strings config.ini and a user override may give a key
ConfigValues == {"5.0", "G28"}
OverrideValues == {"5.0", "0", "M104 S{mystery}"}

\* the keys the two maps and forced_keys may mention
MapKeys == {"a", "b", StartGcode, EndGcode, ScaleKey, UnknownKey}
ForcedChoices == {"a", "b", ScaleKey, UnknownKey}

ResolveRegistry(sa, sb, eb, g, sc) ==
    LET keys == <<"a", "b">>
                \o (IF g = <<>> THEN <<>> ELSE <<StartGcode>>)
                \o (IF sc = NotDefined THEN <<>> ELSE <<ScaleKey>>)
    IN  [keys |-> keys,
         val  |-> [k \in Range(keys) |->
                     CASE k = "a" -> SettingDefinition(sa[1], sa[2], NoExpr)
                       [] k = "b" -> SettingDefinition(sb[1], sb[2], eb)
                       [] k = StartGcode -> SettingDefinition("str", g[1], NoExpr)
                       [] OTHER -> SettingDefinition("float", FloatV(5), sc)]]

ResolveInit ==
    /\ SliceIdle
    /\ ValidateIdle
    /\ LayerIdle
    /\ TopoIdle
    /\ dep_graph = [keys |-> <<>>, val |-> <<>>]
    /\ order = <<>>
    /\ \E sa \in SettingsOfA, sb \in SettingsOfB, eb \in ExprsOfB :
         \E g \in GcodeChoices, sc \in ScaleExprs \cup {NotDefined} :
            registry = ResolveRegistry(sa, sb, eb, g, sc)
    /\ \E C \in SmallDomains(MapKeys, MaxConfig) : config_defaults \in [C -> ConfigValues]
    /\ \E O \in SmallDomains(MapKeys, MaxPinned) : overrides \in [O -> OverrideValues]
    /\ forced_keys \in SmallDomains(ForcedChoices, MaxForced)
    /\ pinned_values = <<>>
    /\ namespace = <<>>
    /\ pinned_keys = {}
    /\ result = EmptyResult
    /\ pos = 0
    /\ epc = "idle"
    /\ resolved = <<>>
    /\ rpc = "start"

\* lines 102-103: merge the two maps and evaluate the expressions
ResolveEvaluate ==
    /\ rpc = "start"
    /\ pinned_values' = PinnedOf(config_defaults, overrides)
    /\ result' = evaluate_expressions(registry, PinnedOf(config_defaults, overrides),
                                      config_defaults)
    /\ config_defaults' = DefaultsAfterMerge(config_defaults, overrides)
    /\ rpc' = "evaluated"
    /\ UNCHANGED <<registry, namespace, pinned_keys, pos, epc>>
    /\ UNCHANGED <<overrides, forced_keys, resolved>>
    /\ UNCHANGED topo_vars
    /\ UNCHANGED slice_vars
    /\ UNCHANGED validate_vars
    /\ UNCHANGED layer_vars

\* lines 106-126: the table of strings, the gcode settings pulled and expanded
ResolveMerge ==
    /\ rpc = "evaluated"
    /\ resolved' = ResolvedBeforePruning(registry, result.values, pinned_values)
    /\ rpc' = "merged"
    /\ UNCHANGED <<overrides, forced_keys>>
    /\ UNCHANGED eval_vars
    /\ UNCHANGED topo_vars
    /\ UNCHANGED slice_vars
    /\ UNCHANGED validate_vars
    /\ UNCHANGED layer_vars

\* lines 128-140: drop the values equal to their default and the scale keys
ResolvePrune ==
    /\ rpc = "merged"
    /\ resolved' = Pruned(registry, resolved, overrides, forced_keys)
    /\ rpc' = "done"
    /\ UNCHANGED <<overrides, forced_keys>>
    /\ UNCHANGED eval_vars
    /\ UNCHANGED topo_vars
    /\ UNCHANGED slice_vars
    /\ UNCHANGED validate_vars
    /\ UNCHANGED layer_vars

ResolveNext == ResolveEvaluate \/ ResolveMerge \/ ResolvePrune

SpecResolve == ResolveInit /\ [][ResolveNext]_vars

----------------------------------------------------------------------------
(* find_unknown_gcode_tokens and slice_file, src/auto_slicer/slicer.py *)

\* GCODE_SETTINGS is a tuple: the order its loops follow
GcodeOrder == <<"machine_start_gcode", "machine_end_gcode">>

\* lines 61-67: the expressions of a text whose evaluation raises, in order
UnknownIn(text, ns) ==
    LET toks == SelectSeq(Segments(text), LAMBDA seg : seg.tok)
        bad == SelectSeq(toks, LAMBDA seg : ~PyEval(seg.text, ns, GcodeGlobals).ok)
    IN  [i \in 1..Len(bad) |-> bad[i].text]

\* find_unknown_gcode_tokens, lines 54-70
find_unknown_gcode_tokens(settings) ==
    LET ns == [k \in DOMAIN settings |-> _try_number(settings[k])]
        hit == SelectSeq(GcodeOrder,
                   LAMBDA k : k \in DOMAIN settings /\ UnknownIn(settings[k], ns) # <<>>)
    IN  [keys |-> hit, val |-> [k \in Range(hit) |-> UnknownIn(settings[k], ns)]]

\* sep.join(parts)
RECURSIVE Join(_, _)
Join(parts, sep) ==
    IF parts = <<>> THEN ""
    ELSE IF Len(parts) = 1 THEN parts[1]
    ELSE parts[1] \o sep \o Join(Tail(parts), sep)

\* lines 322-323
UnknownMessage(unk) ==
    "Unknown gcode tokens: "
    \o Join([i \in 1..Len(unk.keys) |->
                unk.keys[i] \o ": " \o Join(unk.val[unk.keys[i]], ", ")], "; ")

\* _resolve_scale, lines 80-87, for maps that give no per-axis scale: the
\* master scale as float(text); ok is FALSE when float raises ValueError
MasterScale(config, over) ==
    LET merged == merge_settings(config, over)
        text == IF "scale" \in DOMAIN merged THEN merged["scale"] ELSE "100"
    IN  PyFloat(StrV(text))

\* needs_scaling, stl_transform.py:6-8, on equal axis factors
needs_scaling(scale) == scale.n # 100

\* build_cura_command, lines 276-299: the -s pairs, one per setting
build_cura_command(settings, keyorder) ==
    [i \in 1..Len(keyorder) |-> <<keyorder[i], settings[keyorder[i]]>>]

\* the keys of a dict in an order its iteration may follow
KeyOrders(d) ==
    {o \in [1..Cardinality(DOMAIN d) -> DOMAIN d] : Range(o) = DOMAIN d}

\* the inputs of a slice_file call
SliceConfigValues == {"5.0", "{a}", "G28"}
SliceOverrideValues ==
    {"0", "50", "M104 S{mystery}", "M104 S{machine_end_gcode + 1}", "{machine_end_gcode}"}
SliceMapKeys == {"a", StartGcode, EndGcode, ScaleKey}
SliceExprsOfB == {NoExpr, "a + 1"}
SliceForced == {{}, {"a"}}

SliceInit ==
    /\ TopoIdle
    /\ ValidateIdle
    /\ LayerIdle
    /\ dep_graph = [keys |-> <<>>, val |-> <<>>]
    /\ order = <<>>
    /\ \E sa \in SettingsOfA, eb \in SliceExprsOfB, g \in GcodeChoices :
          registry = ResolveRegistry(sa, <<"float", FloatV(6)>>, eb, g, NotDefined)
    /\ \E C \in SmallDomains(SliceMapKeys, MaxConfig) :
          config_defaults \in [C -> SliceConfigValues]
    /\ \E O \in SmallDomains(SliceMapKeys, MaxPinned) :
          overrides \in [O -> SliceOverrideValues]
    /\ forced_keys \in SliceForced
    /\ pinned_values = <<>>
    /\ namespace = <<>>
    /\ pinned_keys = {}
    /\ result = EmptyResult
    /\ pos = 0
    /\ epc = "idle"
    /\ resolved = <<>>
    /\ rpc = "idle"
    /\ stl_is_stl \in BOOLEAN
    /\ stl_scaled = FALSE
    /\ active_settings = <<>>
    /\ unknown = [keys |-> <<>>, val |-> <<>>]
    /\ cmd = <<>>
    /\ engine_input = <<>>
    /\ archived = ""
    /\ ret = <<>>
    /\ spc = "start"

SliceInputsUnchanged ==
    /\ UNCHANGED topo_vars
    /\ UNCHANGED eval_vars
    /\ UNCHANGED resolve_vars
    /\ UNCHANGED validate_vars
    /\ UNCHANGED layer_vars
    /\ UNCHANGED stl_is_stl

\* lines 308-316: the scale factors; a scale text that is no number raises
\* out of slice_file, any other factor than 100 rewrites an STL file
SliceScale ==
    /\ spc = "start"
    /\ LET scale == MasterScale(config_defaults, overrides)
       IN  IF ~scale.ok
           THEN spc' = "raised" /\ stl_scaled' = stl_scaled
           ELSE /\ spc' = "scaled"
                /\ stl_scaled' = (needs_scaling(scale.v) /\ stl_is_stl)
    /\ UNCHANGED <<active_settings, unknown, cmd, engine_input, archived, ret>>
    /\ SliceInputsUnchanged

\* line 318
SliceResolve ==
    /\ spc = "scaled"
    /\ active_settings' = resolve_settings(registry, config_defaults, overrides, forced_keys)
    /\ spc' = "resolved"
    /\ UNCHANGED <<stl_scaled, unknown, cmd, engine_input, archived, ret>>
    /\ SliceInputsUnchanged

\* lines 320-325: the scan; any unknown token returns the failure
SliceScan ==
    /\ spc = "resolved"
    /\ unknown' = find_unknown_gcode_tokens(active_settings)
    /\ IF find_unknown_gcode_tokens(active_settings).keys # <<>>
       THEN /\ ret' = [ok |-> FALSE,
                       msg |-> UnknownMessage(find_unknown_gcode_tokens(active_settings))]
            /\ spc' = "returned"
       ELSE ret' = ret /\ spc' = "checked"
    /\ UNCHANGED <<stl_scaled, active_settings, cmd, engine_input, archived>>
    /\ SliceInputsUnchanged

\* lines 327-332: the engine command
SliceBuild ==
    /\ spc = "checked"
    /\ \E o \in KeyOrders(active_settings) : cmd' = build_cura_command(active_settings, o)
    /\ spc' = "built"
    /\ UNCHANGED <<stl_scaled, active_settings, unknown, engine_input, archived, ret>>
    /\ SliceInputsUnchanged

\* line 339: subprocess.run; it returns code 0, another code, or raises
SliceRun ==
    /\ spc = "built"
    /\ engine_input' = Append(engine_input, cmd)
    /\ \E outcome \in {"zero", "nonzero", "exception"} :
          CASE outcome = "zero" -> spc' = "ran_ok" /\ ret' = ret
            [] outcome = "nonzero" -> spc' = "ran_failed" /\ ret' = ret
            [] OTHER -> /\ spc' = "returned"
                        /\ ret' = [ok |-> FALSE, msg |-> "System error"]
    /\ UNCHANGED <<stl_scaled, active_settings, unknown, cmd, archived>>
    /\ SliceInputsUnchanged

\* lines 347-381: the files are moved to the job folder
SliceArchive ==
    /\ spc = "ran_ok"
    /\ archived' = "job"
    /\ ret' = [ok |-> TRUE, msg |-> "Slicing completed successfully"]
    /\ spc' = "returned"
    /\ UNCHANGED <<stl_scaled, active_settings, unknown, cmd, engine_input>>
    /\ SliceInputsUnchanged

\* lines 382-389: the STL file is moved to the errors folder
SliceArchiveError ==
    /\ spc = "ran_failed"
    /\ archived' = "errors"
    /\ ret' = [ok |-> FALSE, msg |-> "CuraEngine error"]
    /\ spc' = "returned"
    /\ UNCHANGED <<stl_scaled, active_settings, unknown, cmd, engine_input>>
    /\ SliceInputsUnchanged

SliceNext ==
    \/ SliceScale \/ SliceResolve \/ SliceScan \/ SliceBuild
    \/ SliceRun \/ SliceArchive \/ SliceArchiveError

SpecSlice == SliceInit /\ [][SliceNext]_vars

----------------------------------------------------------------------------
(* validate, src/auto_slicer/settings_validate.py *)

\* The fields of a SettingDefinition the validator reads.  options is the
\* dict of an enum in insertion order, a sequence of <<key, label>> pairs.
ValidatorDefinition(setting_type, unit, lo, hi, lo_warning, hi_warning, options) ==
    [setting_type |-> setting_type,
     unit |-> unit,
     minimum_value |-> lo,
     maximum_value |-> hi,
     minimum_value_warning |-> lo_warning,
     maximum_value_warning |-> hi_warning,
     options |-> options]

\* what a call of validate comes back with: a ValidationResult (raised = "")
\* or an exception that leaves the function
ValidationResult(ok, coerced_value, error, warning) ==
    [ok |-> ok, coerced_value |-> coerced_value, error |-> error, warning |-> warning,
     raised |-> ""]

Raised(exception) ==
    [ok |-> FALSE, coerced_value |-> "", error |-> "", warning |-> "", raised |-> exception]

_BOOL_TRUE == {"true", "yes", "1", "on"}
_BOOL_FALSE == {"false", "no", "0", "off"}

UnitText(defn) == IF defn.unit # "" THEN " " \o defn.unit ELSE ""

BoundMessage(defn, val, what, bound) ==
    "Value " \o NumberText(val) \o UnitText(defn) \o " is " \o what \o " ("
    \o NumberText(bound) \o UnitText(defn) \o ")"

\* a value equal to the bound counts as above it
AboveBound_Inclusive(val, bound) == bound # NoBound /\ ~Less(val, bound)

BelowBound(val, bound) == bound # NoBound /\ Less(val, bound)
AboveBound(val, bound) == bound # NoBound /\ Greater(val, bound)

\* the warning worked out first and kept on a rejection
_check_bounds_WarnOnReject(defn, val, coerced) ==
    LET warning ==
            IF BelowBound(val, defn.minimum_value_warning)
            THEN BoundMessage(defn, val, "below recommended minimum",
                              defn.minimum_value_warning)
            ELSE IF AboveBound(val, defn.maximum_value_warning)
            THEN BoundMessage(defn, val, "above recommended maximum",
                              defn.maximum_value_warning)
            ELSE ""
    IN  IF BelowBound(val, defn.minimum_value)
        THEN ValidationResult(FALSE, coerced,
                              BoundMessage(defn, val, "below minimum", defn.minimum_value),
                              warning)
        ELSE IF AboveBound(val, defn.maximum_value)
        THEN ValidationResult(FALSE, coerced,
                              BoundMessage(defn, val, "above maximum", defn.maximum_value),
                              warning)
        ELSE ValidationResult(TRUE, coerced, "", warning)

_check_bounds(defn, val, coerced) ==
    IF BelowBound(val, defn.minimum_value)
    THEN ValidationResult(FALSE, coerced,
                          BoundMessage(defn, val, "below minimum", defn.minimum_value), "")
    ELSE IF AboveBound(val, defn.maximum_value)
    THEN ValidationResult(FALSE, coerced,
                          BoundMessage(defn, val, "above maximum", defn.maximum_value), "")
    ELSE IF BelowBound(val, defn.minimum_value_warning)
    THEN ValidationResult(TRUE, coerced, "",
                          BoundMessage(defn, val, "below recommended minimum",
                                       defn.minimum_value_warning))
    ELSE IF AboveBound(val, defn.maximum_value_warning)
    THEN ValidationResult(TRUE, coerced, "",
                          BoundMessage(defn, val, "above recommended maximum",
                                       defn.maximum_value_warning))
    ELSE ValidationResult(TRUE, coerced, "", "")

_validate_float(defn, raw) ==
    LET parsed == PyFloatParse(raw)
    IN  IF ~parsed.ok
        THEN ValidationResult(FALSE, raw, "Expected a number, got '" \o raw \o "'", "")
        ELSE _check_bounds(defn, parsed.v, raw)

ExpectedInteger(raw) ==
    ValidationResult(FALSE, raw, "Expected an integer, got '" \o raw \o "'", "")

\* a fraction cut off instead of refused
_validate_int_Truncating(defn, raw) ==
    LET whole == PyIntParse(raw)
        f == PyFloatParse(raw)
        val == Fin("int", f.v.m - (f.v.m % Scale))
    IN  CASE whole.ok -> _check_bounds(defn, whole.v, NumberText(whole.v))
          [] ~f.ok -> ExpectedInteger(raw)
          [] f.v.kind \in {"inf", "-inf"} -> Raised("OverflowError")
          [] f.v.kind = "nan" -> ExpectedInteger(raw)
          [] OTHER -> _check_bounds(defn, val, NumberText(val))

\* int(raw), then float(raw) for "3.0" style input: int(f) of an infinity is
\* an OverflowError nothing catches, int(f) of nan a ValueError
_validate_int(defn, raw) ==
    LET whole == PyIntParse(raw)
        f == PyFloatParse(raw)
        val == Fin("int", f.v.m)
    IN  CASE whole.ok -> _check_bounds(defn, whole.v, NumberText(whole.v))
          [] ~f.ok -> ExpectedInteger(raw)
          [] f.v.kind \in {"inf", "-inf"} -> Raised("OverflowError")
          [] f.v.kind = "nan" -> ExpectedInteger(raw)
          [] f.v.m % Scale # 0 -> ExpectedInteger(raw)
          [] OTHER -> _check_bounds(defn, val, NumberText(val))

\* an accepted candidate stored as typed
_validate_bool_AsTyped(defn, raw) ==
    LET lower == PyStrip(PyLower(raw))
    IN  IF lower \in _BOOL_TRUE \cup _BOOL_FALSE THEN ValidationResult(TRUE, raw, "", "")
        ELSE ValidationResult(FALSE, raw, "Expected true/false, got '" \o raw \o "'", "")

_validate_bool(defn, raw) ==
    LET lower == PyStrip(PyLower(raw))
    IN  IF lower \in _BOOL_TRUE THEN ValidationResult(TRUE, "true", "", "")
        ELSE IF lower \in _BOOL_FALSE THEN ValidationResult(TRUE, "false", "", "")
        ELSE ValidationResult(FALSE, raw, "Expected true/false, got '" \o raw \o "'", "")

OptionKeys(defn) == [i \in 1..Len(defn.options) |-> defn.options[i][1]]

\* the first option, in the order of the dict, that passes the test
FirstOption(defn, Test(_)) ==
    LET hits == {i \in 1..Len(defn.options) : Test(defn.options[i])}
    IN  IF hits = {} THEN 0 ELSE CHOOSE i \in hits : \A j \in hits : i <= j

\* the labels tried before the case-insensitive keys
_validate_enum_LabelFirst(defn, raw) ==
    LET raw_lower == PyLower(raw)
        ExactKey(opt) == opt[1] = raw
        LowerKey(opt) == PyLower(opt[1]) = raw_lower
        LowerLabel(opt) == PyLower(opt[2]) = raw_lower
        by_key == FirstOption(defn, LowerKey)
        by_label == FirstOption(defn, LowerLabel)
    IN  IF FirstOption(defn, ExactKey) # 0 THEN ValidationResult(TRUE, raw, "", "")
        ELSE IF by_label # 0 THEN ValidationResult(TRUE, defn.options[by_label][1], "", "")
        ELSE IF by_key # 0 THEN ValidationResult(TRUE, defn.options[by_key][1], "", "")
        ELSE ValidationResult(FALSE, raw,
                              "Invalid option '" \o raw \o "'. Valid options: "
                              \o Join(OptionKeys(defn), ", "), "")

_validate_enum(defn, raw) ==
    LET raw_lower == PyLower(raw)
        ExactKey(opt) == opt[1] = raw
        LowerKey(opt) == PyLower(opt[1]) = raw_lower
        LowerLabel(opt) == PyLower(opt[2]) = raw_lower
        by_key == FirstOption(defn, LowerKey)
        by_label == FirstOption(defn, LowerLabel)
    IN  IF FirstOption(defn, ExactKey) # 0 THEN ValidationResult(TRUE, raw, "", "")
        ELSE IF by_key # 0 THEN ValidationResult(TRUE, defn.options[by_key][1], "", "")
        ELSE IF by_label # 0 THEN ValidationResult(TRUE, defn.options[by_label][1], "", "")
        ELSE ValidationResult(FALSE, raw,
                              "Invalid option '" \o raw \o "'. Valid options: "
                              \o Join(OptionKeys(defn), ", "), "")

_validate_str(defn, raw) == ValidationResult(TRUE, raw, "", "")

validate(defn, raw) ==
    CASE defn.setting_type = "float" -> _validate_float(defn, raw)
      [] defn.setting_type = "int" -> _validate_int(defn, raw)
      [] defn.setting_type = "bool" -> _validate_bool(defn, raw)
      [] defn.setting_type = "enum" -> _validate_enum(defn, raw)
      [] OTHER -> _validate_str(defn, raw)

\* _try_parse_number: a bound of the schema is float(value), or None
Bound(text) == PyFloatParse(text).v

Units == {"", "mm"}
MinimumValues == {NoBound, Bound("0.001"), Bound("0")}
MaximumValues == {NoBound, Bound("4")}
MinimumWarnings == {NoBound, Bound("1")}
MaximumWarnings == {NoBound, Bound("3")}
SettingTypes == {"float", "int", "bool", "enum", "str"}

\* the options of an enum: none, an ordinary choice, two keys that differ
\* only in case, and a label that reads as another option's key
OptionChoices ==
    {<<>>,
     <<<<"brim", "Brim">>, <<"skirt", "Skirt Line">>, <<"none", "None">>>>,
     <<<<"Brim", "Upper">>, <<"brim", "Lower">>>>,
     <<<<"skirt", "Brim">>, <<"brim", "Skirt">>>>}

\* the candidates a user may type
RawCandidates ==
    {"5", "4", "0.0005", "0.001", "3", "3.0", "2.5", "-1", " 3 ", "", "abc",
     "inf", "nan", "1e999", " true ", "True", "YES", "on", "0", "off", "maybe",
     "Brim", "brim", "BRIM", "Skirt Line", "SKIRT", "glue"}

ValidateInit ==
    /\ TopoIdle
    /\ dep_graph = [keys |-> <<>>, val |-> <<>>]
    /\ order = <<>>
    /\ EvalIdle
    /\ ResolveIdle
    /\ SliceIdle
    /\ LayerIdle
    /\ \E t \in SettingTypes, u \in Units, lo \in MinimumValues, hi \in MaximumValues,
          lw \in MinimumWarnings, hw \in MaximumWarnings, o \in OptionChoices :
          vdefn = ValidatorDefinition(t, u, lo, hi, lw, hw, o)
    /\ raw_value \in RawCandidates
    /\ validation = <<>>
    /\ vpc = "start"

\* lines 18-27: one call of validate
Validate ==
    /\ vpc = "start"
    /\ validation' = validate(vdefn, raw_value)
    /\ vpc' = IF validation'.raised = "" THEN "returned" ELSE "raised"
    /\ UNCHANGED <<vdefn, raw_value>>
    /\ UNCHANGED topo_vars
    /\ UNCHANGED eval_vars
    /\ UNCHANGED resolve_vars
    /\ UNCHANGED slice_vars
    /\ UNCHANGED layer_vars

ValidateNext == Validate

SpecValidate == ValidateInit /\ [][ValidateNext]_vars

----------------------------------------------------------------------------
(* _apply_overrides, src/auto_slicer/settings_registry.py *)

\* a value read from a JSON document: a number, a string or null
JNum(text) == [t |-> "num", v |-> Bound(text), s |-> ""]
JStr(text) == [t |-> "str", v |-> NoBound, s |-> text]
JNull == [t |-> "null", v |-> NoBound, s |-> ""]

\* lines 22-34: the bound as a float, None for a formula or a missing value
_try_parse_number(value) ==
    CASE value.t = "num" -> [value.v EXCEPT !.t = "float"]
      [] value.t = "str" /\ PyFloatParse(value.s).ok -> PyFloatParse(value.s).v
      [] OTHER -> NoBound

\* a SettingDefinition with every field of the dataclass, and the
\* value_expression config.py sets on it
FullDefinition(key, label, setting_type, default_value, unit, lo, hi, options, expr) ==
    [key |-> key, label |-> label, description |-> "about " \o key,
     setting_type |-> setting_type, default_value |-> default_value, unit |-> unit,
     minimum_value |-> lo, maximum_value |-> hi,
     minimum_value_warning |-> NoBound, maximum_value_warning |-> NoBound,
     options |-> options, category |-> "Quality", value_expression |-> expr]

\* a bound given as a formula leaves the number an earlier layer gave
ApplyOverride_KeepsNumber(defn, override) ==
    LET Kept(f) ==
            IF f \in DOMAIN override /\ _try_parse_number(override[f]) # NoBound
            THEN _try_parse_number(override[f]) ELSE defn[f]
    IN  [defn EXCEPT
           !.default_value =
               IF "default_value" \in DOMAIN override THEN override["default_value"] ELSE @,
           !.minimum_value = Kept("minimum_value"),
           !.maximum_value = Kept("maximum_value"),
           !.minimum_value_warning = Kept("minimum_value_warning"),
           !.maximum_value_warning = Kept("maximum_value_warning")]

\* lines 119-129: the fields one override sets on a known key
ApplyOverride(defn, override) ==
    LET Given(f) == f \in DOMAIN override
    IN  [defn EXCEPT
           !.default_value = IF Given("default_value") THEN override["default_value"] ELSE @,
           !.minimum_value =
               IF Given("minimum_value") THEN _try_parse_number(override["minimum_value"]) ELSE @,
           !.maximum_value =
               IF Given("maximum_value") THEN _try_parse_number(override["maximum_value"]) ELSE @,
           !.minimum_value_warning =
               IF Given("minimum_value_warning")
               THEN _try_parse_number(override["minimum_value_warning"]) ELSE @,
           !.maximum_value_warning =
               IF Given("maximum_value_warning")
               THEN _try_parse_number(override["maximum_value_warning"]) ELSE @]

\* an override also creates the key it names
_apply_overrides_AddsKeys(table, over) ==
    [k \in DOMAIN table \cup DOMAIN over |->
        IF k \notin DOMAIN table
        THEN ApplyOverride(FullDefinition(k, k, "str", JNull, "", NoBound, NoBound, <<>>, NoExpr),
                           over[k])
        ELSE IF k \in DOMAIN over THEN ApplyOverride(table[k], over[k])
        ELSE table[k]]

\* lines 114-129: a key the table does not hold is skipped
_apply_overrides(table, over) ==
    [k \in DOMAIN table |->
        IF k \in DOMAIN over THEN ApplyOverride(table[k], over[k]) ELSE table[k]]

\* the tables a base layer may have built: one float attribute with bounds,
\* alone or beside an enum attribute
BaseA ==
    FullDefinition("a", "Layer Height", "float", JNum("1"), "mm", Bound("0.001"), Bound("4"),
                   <<>>, NoExpr)
BaseB ==
    FullDefinition("b", "Adhesion", "enum", JStr("brim"), "", NoBound, NoBound,
                   <<<<"brim", "Brim">>, <<"skirt", "Skirt">>>>, "a + 1")
BaseTables == {[k \in {"a"} |-> BaseA], [k \in {"a", "b"} |-> IF k = "a" THEN BaseA ELSE BaseB]}

\* the entries a child layer may give for one key: fields it may override,
\* fields it may not, and a bound given as a formula
OverrideChoices ==
    {<<>>,
     [f \in {"default_value"} |-> JNum("2")],
     [f \in {"minimum_value"} |-> JStr("0.0005")],
     [f \in {"maximum_value"} |-> JStr("machine_width / 2")],
     [f \in {"minimum_value_warning", "maximum_value_warning"} |->
         IF f = "minimum_value_warning" THEN JNum("1") ELSE JNull],
     [f \in {"default_value", "label", "unit"} |->
         IF f = "default_value" THEN JStr("skirt") ELSE JStr("Renamed")],
     [f \in {"value", "type"} |-> IF f = "value" THEN JStr("a * 2") ELSE JStr("int")]}

LayerKeys == {"a", "b", UnknownKey}

LayerInit ==
    /\ TopoIdle
    /\ dep_graph = [keys |-> <<>>, val |-> <<>>]
    /\ order = <<>>
    /\ EvalIdle
    /\ ResolveIdle
    /\ SliceIdle
    /\ ValidateIdle
    /\ all_settings \in BaseTables
    /\ \E K \in SUBSET LayerKeys : layer \in [K -> OverrideChoices]
    /\ lpc = "start"
    /\ LoadIdle

\* line 59: one child layer's overrides applied to the table
ApplyLayer ==
    /\ lpc = "start"
    /\ all_settings' = _apply_overrides(all_settings, layer)
    /\ lpc' = "applied"
    /\ UNCHANGED <<layer, defs, printer_definition, chain, lidx, bounds_overrides, ini>>
    /\ UNCHANGED topo_vars
    /\ UNCHANGED eval_vars
    /\ UNCHANGED resolve_vars
    /\ UNCHANGED slice_vars
    /\ UNCHANGED validate_vars

LayerNext == ApplyLayer

SpecLayer == LayerInit /\ [][LayerNext]_vars

----------------------------------------------------------------------------
(* SettingsRegistry._load and load_config, step by step *)

\* number of entries of the BOUNDS_OVERRIDES section
MaxEntries == 2

\* str.removesuffix
RemoveSuffix(text, suffix) ==
    IF Len(text) >= Len(suffix)
       /\ SubSeq(text, Len(text) - Len(suffix) + 1, Len(text)) = suffix
    THEN SubSeq(text, 1, Len(text) - Len(suffix))
    ELSE text

\* data.get("inherits") of a document that names no parent
NoParent == ""

\* settings_registry.py lines 66-73: the names from printer_definition up to
\* the root; _read_def raises when a document is not there
RECURSIVE ChainWalk(_, _, _)
ChainWalk(documents, name, walked) ==
    IF name = NoParent THEN [raised |-> "", chain |-> walked]
    ELSE IF name \notin DOMAIN documents THEN [raised |-> "FileNotFoundError", chain |-> <<>>]
    ELSE ChainWalk(documents, documents[name].inherits, Append(walked, name))

\* list.reverse
Reversed(seq) == [i \in 1..Len(seq) |-> seq[Len(seq) + 1 - i]]

\* the chain is left in the order the walk appended it
_resolve_chain_Unreversed(documents, printer) ==
    ChainWalk(documents, RemoveSuffix(printer, ".def.json"), <<>>)

_resolve_chain(documents, printer) ==
    LET r == ChainWalk(documents, RemoveSuffix(printer, ".def.json"), <<>>)
    IN  [r EXCEPT !.chain = Reversed(r.chain)]

\* config.py lines 37-40
BOUNDS_FIELD_NAMES ==
    {"minimum_value", "maximum_value", "minimum_value_warning", "maximum_value_warning"}

\* float(value) of a value of a document or of defaults.py
PyFloatOf(value) ==
    CASE value.t = "num" -> [ok |-> TRUE, v |-> [value.v EXCEPT !.t = "float"]]
      [] value.t = "str" -> PyFloatParse(value.s)
      [] OTHER -> [ok |-> FALSE, v |-> NaN]

\* config.py lines 43-51: the nested bound overrides of defaults.py, one key
\* after the other; fields are the <<field, value>> pairs of one key
RECURSIVE SetBounds(_, _, _)
SetBounds(defn, fields, names) ==
    IF names = {} THEN defn
    ELSE LET f == CHOOSE n \in names : TRUE
         IN  SetBounds(IF f \in BOUNDS_FIELD_NAMES
                       THEN [defn EXCEPT ![f] = PyFloatOf(fields[f]).v]
                       ELSE defn,
                       fields, names \ {f})

_apply_bounds(table, over) ==
    [k \in DOMAIN table |->
        IF k \in DOMAIN over THEN SetBounds(table[k], over[k], DOMAIN over[k])
        ELSE table[k]]

\* config.py lines 54-59
_apply_expressions(table, over) ==
    [k \in DOMAIN table |->
        IF k \in DOMAIN over THEN [table[k] EXCEPT !.value_expression = over[k]]
        ELSE table[k]]

\* position of the last "." of text at or before i, 0 when there is none
RECURSIVE LastDot(_, _)
LastDot(text, i) ==
    IF i = 0 THEN 0
    ELSE IF CharAt(text, i) = "." THEN i
    ELSE LastDot(text, i - 1)

\* entry.rsplit(".", 1) of an entry that holds a "."
RSplit(entry) ==
    LET dot == LastDot(entry, Len(entry))
    IN  [key |-> SubSeq(entry, 1, dot - 1), field_name |-> SubSeq(entry, dot + 1, Len(entry))]

\* every field name is taken for a bound field
IniEntry_AnyField(table, entry, value) ==
    IF LastDot(entry, Len(entry)) = 0 THEN [raised |-> "", table |-> table]
    ELSE IF RSplit(entry).key \in DOMAIN table
    THEN IF PyFloatParse(value).ok
         THEN [raised |-> "",
               table |-> [table EXCEPT ![RSplit(entry).key][RSplit(entry).field_name] =
                                            PyFloatParse(value).v]]
         ELSE [raised |-> "ValueError", table |-> table]
    ELSE [raised |-> "", table |-> table]

\* config.py lines 65-70: one entry of the section
IniEntry(table, entry, value) ==
    IF LastDot(entry, Len(entry)) = 0 THEN [raised |-> "", table |-> table]
    ELSE IF RSplit(entry).key \in DOMAIN table /\ RSplit(entry).field_name \in BOUNDS_FIELD_NAMES
    THEN IF PyFloatParse(value).ok
         THEN [raised |-> "",
               table |-> [table EXCEPT ![RSplit(entry).key][RSplit(entry).field_name] =
                                            PyFloatParse(value).v]]
         ELSE [raised |-> "ValueError", table |-> table]
    ELSE [raised |-> "", table |-> table]

\* config.py lines 62-70: the entries in the order of the section, up to the
\* first float(value) that raises
RECURSIVE _apply_bounds_from_ini(_, _, _)
_apply_bounds_from_ini(table, config_section, i) ==
    IF i > Len(config_section) THEN [raised |-> "", table |-> table]
    ELSE LET r == IniEntry(table, config_section[i][1], config_section[i][2])
         IN  IF r.raised # "" THEN r
             ELSE _apply_bounds_from_ini(r.table, config_section, i + 1)

\* The value entry of an override becomes the value_expression of a known
\* key.  The settings_registry.py at hand has no value_expression field; the
\* _apply_overrides the tests call (tests/test_settings.py, lines 191-199)
\* and the evaluator's reads of defn.value_expression require this step.
_apply_value_overrides(table, over) ==
    [k \in DOMAIN table |->
        IF k \in DOMAIN over /\ "value" \in DOMAIN over[k]
        THEN [table[k] EXCEPT !.value_expression = over[k]["value"].s]
        ELSE table[k]]

\* a definition document: the parent it names, the flattened settings of a
\* base document, the overrides of a child document
Document(inherits, settings, over) ==
    [inherits |-> inherits, settings |-> settings, overrides |-> over]

BaseTable == [k \in {"a", "b"} |-> IF k = "a" THEN BaseA ELSE BaseB]

\* what a child layer may give for the float attribute a
LoadOverrideChoices ==
    {<<>>,
     [f \in {"default_value"} |-> JNum("2")],
     [f \in {"maximum_value"} |-> JNum("3")],
     [f \in {"maximum_value", "minimum_value"} |->
         IF f = "maximum_value" THEN JStr("2.5") ELSE JStr("0.0005")],
     [f \in {"maximum_value"} |-> JStr("machine_width / 2")],
     [f \in {"value", "default_value"} |-> IF f = "value" THEN JStr("a * 2") ELSE JNum("7")]}

\* what the most specific layer may give for the enum attribute b
LoadOverrideChoicesOfB == {<<>>, [f \in {"default_value"} |-> JStr("skirt")]}

\* the overrides map of a layer from what it gives for a and for b
OverridesOf(forA, forB) ==
    [k \in (IF forA = <<>> THEN {} ELSE {"a"}) \cup (IF forB = <<>> THEN {} ELSE {"b"}) |->
        IF k = "a" THEN forA ELSE forB]

ParentChoices == {"creality_base", "fdmprinter", "ghost"}
PrinterChoices == {"ender3.def.json", "creality_base"}

\* extract_expression_overrides(SETTINGS) and the choices of
\* extract_bounds_overrides(SETTINGS)
ExpressionOverrides == [k \in {"b", UnknownKey} |-> "a * 2"]
BoundsOverridesChoices == {<<>>, [k \in {"a"} |-> [f \in {"maximum_value"} |-> JNum("3")]]}

\* the entries a BOUNDS_OVERRIDES section may hold
IniEntries ==
    {<<"a.maximum_value", "2">>, <<"a.minimum_value", "0.5">>,
     <<"b.maximum_value_warning", "3">>, <<"a", "2">>, <<"zzz.maximum_value", "2">>,
     <<"a.default_value", "2">>, <<"a.maximum_value", "abc">>}

\* the sections: at most MaxEntries entries, no option twice
IniSections ==
    {sec \in UNION {[1..n -> IniEntries] : n \in 0..MaxEntries} :
        \A i, j \in 1..Len(sec) : i # j => sec[i][1] # sec[j][1]}

\* the values a user may type for a once the config is loaded
LoadedRawCandidates == {"2.5", "3.5"}

LoadInit ==
    /\ TopoIdle
    /\ dep_graph = [keys |-> <<>>, val |-> <<>>]
    /\ order = <<>>
    /\ EvalIdle
    /\ ResolveIdle
    /\ SliceIdle
    /\ ValidateIdle
    /\ all_settings = <<>>
    /\ layer = <<>>
    /\ \E mid \in LoadOverrideChoices, top \in LoadOverrideChoices,
          topB \in LoadOverrideChoicesOfB, parent \in ParentChoices :
          defs = [n \in {"fdmprinter", "creality_base", "ender3"} |->
                    CASE n = "fdmprinter" -> Document(NoParent, BaseTable, <<>>)
                      [] n = "creality_base" ->
                            Document("fdmprinter", <<>>, OverridesOf(mid, <<>>))
                      [] OTHER -> Document(parent, <<>>, OverridesOf(top, topB))]
    /\ printer_definition \in PrinterChoices
    /\ chain = <<>>
    /\ lidx = 0
    /\ bounds_overrides \in BoundsOverridesChoices
    /\ ini \in IniSections
    /\ lpc = "load"

UnchangedByLoad ==
    /\ UNCHANGED <<layer, defs, printer_definition, bounds_overrides, ini>>
    /\ UNCHANGED topo_vars
    /\ UNCHANGED eval_vars
    /\ UNCHANGED resolve_vars
    /\ UNCHANGED slice_vars

\* settings_registry.py line 49
LoadResolveChain ==
    /\ lpc = "load"
    /\ LET r == _resolve_chain(defs, printer_definition)
       IN  /\ chain' = r.chain
           /\ lpc' = IF r.raised # "" THEN "raised" ELSE "flatten"
    /\ UNCHANGED <<all_settings, lidx>>
    /\ UNCHANGED validate_vars
    /\ UnchangedByLoad

\* lines 52-54: the base document's settings, flattened
LoadFlattenBase ==
    /\ lpc = "flatten"
    /\ all_settings' = defs[chain[1]].settings
    /\ lidx' = 2
    /\ lpc' = "layers"
    /\ UNCHANGED chain
    /\ UNCHANGED validate_vars
    /\ UnchangedByLoad

\* lines 57-59: the overrides of the next child of the chain
LoadApplyLayer ==
    /\ lpc = "layers"
    /\ lidx <= Len(chain)
    /\ all_settings' =
          _apply_value_overrides(_apply_overrides(all_settings, defs[chain[lidx]].overrides),
                                 defs[chain[lidx]].overrides)
    /\ lidx' = lidx + 1
    /\ UNCHANGED <<lpc, chain>>
    /\ UNCHANGED validate_vars
    /\ UnchangedByLoad

\* lines 61-64 and config.py line 95: the registry is built
LoadReturn ==
    /\ lpc = "layers"
    /\ lidx > Len(chain)
    /\ lpc' = "loaded"
    /\ UNCHANGED <<all_settings, chain, lidx>>
    /\ UNCHANGED validate_vars
    /\ UnchangedByLoad

\* config.py line 96
ConfigApplyExpressions ==
    /\ lpc = "loaded"
    /\ all_settings' = _apply_expressions(all_settings, ExpressionOverrides)
    /\ lpc' = "expressions"
    /\ UNCHANGED <<chain, lidx>>
    /\ UNCHANGED validate_vars
    /\ UnchangedByLoad

\* config.py line 97
ConfigApplyBounds ==
    /\ lpc = "expressions"
    /\ all_settings' = _apply_bounds(all_settings, bounds_overrides)
    /\ lpc' = "bounds"
    /\ UNCHANGED <<chain, lidx>>
    /\ UNCHANGED validate_vars
    /\ UnchangedByLoad

\* config.py lines 98-99
ConfigApplyBoundsFromIni ==
    /\ lpc = "bounds"
    /\ LET r == _apply_bounds_from_ini(all_settings, ini, 1)
       IN  /\ all_settings' = r.table
           /\ lpc' = IF r.raised # "" THEN "raised" ELSE "configured"
    /\ UNCHANGED <<chain, lidx>>
    /\ UNCHANGED validate_vars
    /\ UnchangedByLoad

\* handlers.py line 158: a value typed for a key is validated against the
\* definition config.registry.get returns
ConfigValidate ==
    /\ lpc = "configured"
    /\ vpc = "idle"
    /\ vdefn' = all_settings["a"]
    /\ raw_value' \in LoadedRawCandidates
    /\ vpc' = "start"
    /\ UNCHANGED validation
    /\ UNCHANGED <<all_settings, lpc, chain, lidx>>
    /\ UnchangedByLoad

LoadNext ==
    \/ LoadResolveChain
    \/ LoadFlattenBase
    \/ LoadApplyLayer
    \/ LoadReturn
    \/ ConfigApplyExpressions
    \/ ConfigApplyBounds
    \/ ConfigApplyBoundsFromIni
    \/ ConfigValidate
    \/ Validate

SpecLoad == LoadInit /\ [][LoadNext]_vars

\* A registry with a bool flag a, for the runs that pin the flag: b may read
\* the flag, be a constant, or read a name no table defines.
FlagDefaults == {BoolV(TRUE), BoolV(FALSE)}
FlagExprsOfB == {NoExpr, "3 if a else 7", "2", "mystery", "a + 1"}
FlagExprsOfC == {NoExpr, "b * 2", "2"}
FlagStrings == {"false", "true", "False", "0", ""}

FlagInit ==
    /\ SliceIdle
    /\ ValidateIdle
    /\ LayerIdle
    /\ TopoIdle
    /\ ResolveIdle
    /\ dep_graph = [keys |-> <<>>, val |-> <<>>]
    /\ order = <<>>
    /\ \E d \in FlagDefaults, eb \in FlagExprsOfB, ec \in FlagExprsOfC :
          registry = RegistryOf(EvalKeys, [k \in {"a"} |-> <<"bool", d>>],
                                [k \in Range(EvalKeys) |->
                                    CASE k = "b" -> eb [] k = "c" -> ec [] OTHER -> NoExpr])
    /\ \E P \in SmallDomains({"a", "b"}, MaxPinned) : pinned_values \in [P -> FlagStrings]
    /\ \E C \in SmallDomains({"a", "b"}, MaxConfig) : config_defaults \in [C -> FlagStrings]
    /\ namespace = <<>>
    /\ pinned_keys = {}
    /\ result = EmptyResult
    /\ pos = 0
    /\ epc = "start"

SpecFlag == FlagInit /\ [][EvalNext]_vars

----------------------------------------------------------------------------
(* Properties of topological_order *)

GraphKeySet(g) == Range(g.keys)

\* the in-graph dependencies of key k
InGraphDeps(g, k) == g.val[k] \cap GraphKeySet(g)

\* the keys reachable from the set S along dependency edges in at most n steps
RECURSIVE ReachWithin(_, _, _)
ReachWithin(g, S, n) ==
    IF n = 0 THEN S
    ELSE ReachWithin(g, S \cup UNION {InGraphDeps(g, k) : k \in S}, n - 1)

\* every key k depends on, directly or transitively
TransDeps(g, k) == ReachWithin(g, InGraphDeps(g, k), Len(g.keys))

OnCycle(g, k) == k \in TransDeps(g, k)

Acyclic(g) == \A k \in GraphKeySet(g) : ~OnCycle(g, k)

DepsBefore(g, ord, k) ==
    \A d \in InGraphDeps(g, k) : IndexOf(ord, d) > 0 /\ IndexOf(ord, d) < IndexOf(ord, k)

\* C1: for a graph with no cycle, the returned order puts every dependency
\* that is itself a key of the graph before each key that depends on it.
C1_AcyclicDepsFirst ==
    (tpc = "done" /\ Acyclic(dep_graph)) =>
        \A k \in GraphKeySet(dep_graph) : DepsBefore(dep_graph, order, k)

\* a diamond d -> {b, c} -> a has been ordered
C1_Witness ==
    /\ tpc = "done"
    /\ dep_graph.keys = <<"a", "b", "c", "d">>
    /\ dep_graph.val["a"] = {"c"}
    /\ dep_graph.val["b"] = {"c"}
    /\ dep_graph.val["c"] = {}
    /\ dep_graph.val["d"] = {"a", "b"}
    /\ order = <<"c", "a", "b", "d">>

ExactlyTheKeys(g, ord) ==
    /\ Len(ord) = Len(g.keys)
    /\ Range(ord) = GraphKeySet(g)

\* C2: for every graph, cyclic or not, topological_order runs to its return
\* and the returned order holds every key of the graph exactly once and no
\* other name.
C2_TerminatesWithEveryKeyOnce ==
    /\ <>(tpc = "done")
    /\ [](tpc = "done" => ExactlyTheKeys(dep_graph, order))

\* a 3-cycle with a dependency that is no key of the graph has been returned
C2_Witness ==
    /\ tpc = "done"
    /\ dep_graph.keys = <<"a", "b", "c">>
    /\ dep_graph.val["a"] = {"b"}
    /\ dep_graph.val["b"] = {"c"}
    /\ dep_graph.val["c"] = {"a", "d"}
    /\ order = <<"a", "b", "c">>

----------------------------------------------------------------------------
(* Properties of evaluate_expressions *)

\* the keys with a value expression (value_expression is not None)
ExprKeys(reg) == {k \in RegKeys(reg) : HasExpression(reg, k)}

\* the keys given in the pinned map that the registry defines
Pinned(reg, pinned) == DOMAIN pinned \cap RegKeys(reg)

\* the value a key ends the run with: its pinned value, else its computed
\* value, else its config default, else its schema default
FinalValue(reg, pinned, config, res, k) ==
    IF k \in DOMAIN pinned THEN _coerce(StrV(pinned[k]), reg.val[k].setting_type)
    ELSE IF k \in DOMAIN res.values THEN res.values[k]
    ELSE IF k \in DOMAIN config THEN _coerce(StrV(config[k]), reg.val[k].setting_type)
    ELSE reg.val[k].default_value

FinalNamespace(reg, pinned, config, res) ==
    [k \in RegKeys(reg) |-> FinalValue(reg, pinned, config, res, k)]

\* the key's expression evaluated over the final values, coerced to its type
ExpressionOverFinal(reg, pinned, config, res, k) ==
    PyEval(reg.val[k].value_expression, FinalNamespace(reg, pinned, config, res), EvalGlobals)

C4_PinnedNeverEvaluated ==
    epc \in {"loop", "done"} =>
        \A p \in Pinned(registry, pinned_values) :
            /\ namespace[p] = _coerce(StrV(pinned_values[p]), registry.val[p].setting_type)
            /\ p \notin DOMAIN result.values
            /\ p \notin DOMAIN result.errors

\* b carries an expression and is pinned to "3"; c = b * 2 is computed as 6
C4_Witness ==
    /\ epc = "done"
    /\ registry.val["b"].value_expression = "a + 1"
    /\ registry.val["b"].setting_type = "float"
    /\ registry.val["c"].value_expression = "b * 2"
    /\ registry.val["c"].setting_type = "float"
    /\ pinned_values = [k \in {"b"} |-> "3"]
    /\ "c" \in DOMAIN result.values
    /\ result.values["c"] = FloatV(6)
    /\ "b" \notin DOMAIN result.values

\* C5: after a run, no key is in both values and errors, every non-pinned
\* expression-bearing key is in exactly one of them, and a key with no
\* expression is in neither.
C5_ValuesErrorsPartition ==
    epc = "done" =>
        /\ DOMAIN result.values \cap DOMAIN result.errors = {}
        /\ \A k \in ExprKeys(registry) \ Pinned(registry, pinned_values) :
              (k \in DOMAIN result.values) # (k \in DOMAIN result.errors)
        /\ \A k \in RegKeys(registry) \ ExprKeys(registry) :
              k \notin DOMAIN result.values /\ k \notin DOMAIN result.errors

\* a 2-cycle a <-> b is in values, the unparsable c in errors
C5_Witness ==
    /\ epc = "done"
    /\ registry.val["a"].value_expression = "b * 2"
    /\ registry.val["b"].value_expression = "a + 1"
    /\ registry.val["c"].value_expression = "this is not python %%%"
    /\ DOMAIN result.values = {"a", "b"}
    /\ DOMAIN result.errors = {"c"}

\* the key the loop is at, when it is a non-pinned expression-bearing key
\* whose expression does not parse or raises over the current namespace
AtFailingKey ==
    /\ epc = "loop"
    /\ pos <= Len(order)
    /\ order[pos] \notin pinned_keys
    /\ HasExpression(registry, order[pos])
    /\ ~PyEval(registry.val[order[pos]].value_expression, namespace, EvalGlobals).ok

\* C6: a failing expression never aborts the run: the graph is built (a parse
\* failure gives the key no dependencies), the key whose expression does not
\* parse or raises is recorded in errors and is absent from values, and every
\* other non-pinned expression-bearing key is still evaluated.
C6_FailureRecordedNotFatal ==
    [][/\ AtFailingKey => (order[pos] \in DOMAIN result'.errors /\ epc' = "loop")
       /\ epc' = "done" =>
            /\ pos > Len(order)
            /\ \A k \in DOMAIN result'.errors : k \notin DOMAIN result'.values
            /\ \A k \in ExprKeys(registry) \ Pinned(registry, pinned_values) :
                  k \in DOMAIN result'.values \cup DOMAIN result'.errors
            /\ \A k \in ExprKeys(registry) :
                  Parse(registry.val[k].value_expression).op = "SyntaxError"
                     => dep_graph.val[k] = {}]_vars

----------------------------------------------------------------------------
(* Properties of resolve_settings *)

\* the keys of a map that are neither scale keys nor gcode settings
RegularKeys(S) == S \ (SCALE_KEYS \cup GCODE_SETTINGS)

\* C7: every key of the user-override map other than the scale keys and the
\* gcode settings is in the emitted table with exactly the override string,
\* whatever the key's computed value, config default or schema default is.
C7_OverrideEmittedVerbatim ==
    rpc = "done" =>
        \A k \in RegularKeys(DOMAIN overrides) :
            k \in DOMAIN resolved /\ resolved[k] = overrides[k]

\* b = a + 1 computes to 6, config.ini gives b "5.0", the user overrides b
\* with "0", which is also b's schema default: "0" is emitted
C7_Witness ==
    /\ rpc = "done"
    /\ registry.val["b"] = SettingDefinition("int", IntV(0), "a + 1")
    /\ config_defaults = [k \in {"b"} |-> "5.0"]
    /\ overrides = [k \in {"b"} |-> "0"]
    /\ resolved["b"] = "0"

\* the string a key has before the pruning: the config default when there is
\* one, else the computed value as a string
HasFinalString(k) == k \in DOMAIN config_defaults \cup DOMAIN result.values

FinalString(k) ==
    IF k \in DOMAIN config_defaults THEN config_defaults[k]
    ELSE PyStr(result.values[k])

DefaultString(k) == PyStr(registry.val[k].default_value)

\* C8: a registry key that is not a user override, not forced and not a gcode
\* setting is absent from the emitted table when its final string equals the
\* string of its schema default (computed or given by config.ini alike); a
\* user override equal to the default is kept.
C8_DefaultsPruned ==
    rpc = "done" =>
        /\ \A k \in RegKeys(registry) \ (DOMAIN overrides \cup forced_keys \cup GCODE_SETTINGS) :
              (HasFinalString(k) /\ FinalString(k) = DefaultString(k))
                  => k \notin DOMAIN resolved
        /\ \A k \in RegularKeys(DOMAIN overrides \cap RegKeys(registry)) :
              overrides[k] = DefaultString(k)
                  => k \in DOMAIN resolved /\ resolved[k] = overrides[k]

\* config.ini gives a its default "5.0" and b = a + 1 computes to its default
\* 6.0: neither is emitted
C8_Witness ==
    /\ rpc = "done"
    /\ registry.val["a"] = SettingDefinition("float", FloatV(5), NoExpr)
    /\ registry.val["b"] = SettingDefinition("float", FloatV(6), "a + 1")
    /\ config_defaults = [k \in {"a"} |-> "5.0"]
    /\ overrides = <<>>
    /\ forced_keys = {}
    /\ result.values["b"] = FloatV(6)
    /\ "a" \notin DOMAIN resolved
    /\ "b" \notin DOMAIN resolved

\* C9: every forced key that is a registry key and not a scale key is in the
\* emitted table, for every choice of config defaults and user overrides.
C9_ForcedAlwaysEmitted ==
    rpc = "done" =>
        \A k \in (forced_keys \cap RegKeys(registry)) \ SCALE_KEYS :
            k \in DOMAIN resolved

\* the gcode settings something supplies: the registry with a default that is
\* not None, config.ini, or the user
GcodeSupplied ==
    {k \in GCODE_SETTINGS :
        \/ k \in RegKeys(registry) /\ registry.val[k].default_value # NoneV
        \/ k \in DOMAIN config_defaults
        \/ k \in DOMAIN overrides}

\* C10: a gcode setting the registry defines with a default that is not None,
\* or that config.ini or the user supplies, is in the emitted table; when only
\* the registry supplies it, the emitted text is the expanded schema default.
C10_GcodeAlwaysEmitted ==
    rpc = "done" =>
        \A k \in GcodeSupplied :
            /\ k \in DOMAIN resolved
            /\ k \notin DOMAIN config_defaults \cup DOMAIN overrides =>
                  resolved[k] =
                      expand_gcode_tokens(DefaultString(k),
                          TokenLookup(registry,
                              WithGcodeDefaults(registry,
                                  ComputedAndPinned(result.values, pinned_values))))

\* the start gcode "G28" comes from the registry alone and is emitted, equal
\* to its schema default as it is
C10_Witness ==
    /\ rpc = "done"
    /\ StartGcode \in RegKeys(registry)
    /\ registry.val[StartGcode].default_value = StrV("G28")
    /\ StartGcode \notin DOMAIN config_defaults \cup DOMAIN overrides
    /\ StartGcode \in DOMAIN resolved
    /\ resolved[StartGcode] = "G28"

\* the text a gcode setting has before the expansion: the pinned string, else
\* the computed value, else the schema default
GcodeSource(k) ==
    IF k \in DOMAIN pinned_values THEN pinned_values[k]
    ELSE IF k \in DOMAIN result.values THEN PyStr(result.values[k])
    ELSE DefaultString(k)

\* the keys with a schema default, and the keys with a resolved value
DefaultedKeys == {k \in RegKeys(registry) : registry.val[k].default_value # NoneV}

ResolvedKeys == DOMAIN pinned_values \cup DOMAIN result.values

\* the token namespace: every schema default, a resolved value in its place
\* where there is one, each read as a number when it is the text of a number
TokenNamespace ==
    [k \in DefaultedKeys \cup ResolvedKeys |->
        _try_number(IF k \in DOMAIN pinned_values THEN pinned_values[k]
                    ELSE IF k \in DOMAIN result.values THEN PyStr(result.values[k])
                    ELSE DefaultString(k))]

\* one stretch of a gcode text after the expansion: a placeholder whose
\* expression evaluates becomes the string of the value, every other stretch
\* stays as it is
ExpandedStretch(seg) ==
    IF seg.tok /\ PyEval(seg.text, TokenNamespace, GcodeGlobals).ok
    THEN PyStr(PyEval(seg.text, TokenNamespace, GcodeGlobals).v)
    ELSE IF seg.tok THEN "{" \o seg.text \o "}"
    ELSE seg.text

RECURSIVE Joined(_, _)
Joined(segs, i) ==
    IF i > Len(segs) THEN "" ELSE ExpandedStretch(segs[i]) \o Joined(segs, i + 1)

\* C11: each emitted gcode setting is its source text with every placeholder
\* that evaluates over the token namespace (schema defaults, resolved values
\* on top) replaced by the string of its value, every failing placeholder
\* left verbatim, and the text outside placeholders unchanged.
C11_PlaceholdersExpanded ==
    rpc = "done" =>
        \A k \in GCODE_SETTINGS \cap DOMAIN resolved :
            resolved[k] = Joined(Segments(GcodeSource(k)), 1)

\* b = a + 1 computes to 6 against the schema default 0: {b} becomes "6",
\* {mystery} stays
C11_Witness ==
    /\ rpc = "done"
    /\ registry.val["b"] = SettingDefinition("int", IntV(0), "a + 1")
    /\ StartGcode \in RegKeys(registry)
    /\ registry.val[StartGcode].default_value = StrV("M140 S{b} T{mystery}")
    /\ "b" \in DOMAIN result.values
    /\ result.values["b"] = IntV(6)
    /\ StartGcode \in DOMAIN resolved
    /\ resolved[StartGcode] = "M140 S6 T{mystery}"

----------------------------------------------------------------------------
(* Properties of slice_file *)

\* the table of the call before the expansion, and the namespace the
\* expansion evaluates over
PreExpansion ==
    LET pinned == PinnedOf(config_defaults, overrides)
    IN  WithGcodeDefaults(registry,
            ComputedAndPinned(evaluate_expressions(registry, pinned, config_defaults).values,
                              pinned))

ExpansionNamespace ==
    [k \in DOMAIN TokenLookup(registry, PreExpansion) |->
        _try_number(TokenLookup(registry, PreExpansion)[k])]

\* the placeholders of gcode setting k the expansion left verbatim
LeftVerbatim(k) ==
    {seg.text : seg \in {x \in Range(Segments(PreExpansion[k])) :
                            x.tok /\ ~PyEval(x.text, ExpansionNamespace, GcodeGlobals).ok}}

\* the emitted gcode settings that still hold such a placeholder
Unexpanded ==
    {k \in GCODE_SETTINGS \cap DOMAIN active_settings : LeftVerbatim(k) # {}}

\* C12: once the scan is past, an emitted gcode setting that still holds a
\* placeholder the expansion left verbatim has it reported by
\* find_unknown_gcode_tokens, and slice_file has returned the failure
\* "Unknown gcode tokens" with no engine command built, no engine run and no
\* file archived.
C12_NoEngineRunWithPlaceholder ==
    (spc \in {"checked", "built", "ran_ok", "ran_failed", "returned"} /\ Unexpanded # {}) =>
        /\ \A k \in Unexpanded :
              /\ k \in Range(unknown.keys)
              /\ LeftVerbatim(k) \subseteq Range(unknown.val[k])
        /\ spc = "returned"
        /\ ret = [ok |-> FALSE, msg |-> UnknownMessage(unknown)]
        /\ cmd = <<>>
        /\ engine_input = <<>>
        /\ archived = ""

----------------------------------------------------------------------------
(* Completeness of the expansion *)

\* the placeholders of an emitted text that evaluate over the namespace of
\* the expansion
Resolvable(text) ==
    {seg.text : seg \in {x \in Range(Segments(text)) :
                            x.tok /\ PyEval(x.text, ExpansionNamespace, GcodeGlobals).ok}}

\* C26: once resolve_settings has returned, no emitted gcode setting holds a
\* placeholder whose expression evaluates over the token namespace, also
\* when a substituted value itself held such a placeholder, and expanding an
\* emitted gcode setting a second time over the same namespace changes
\* nothing.
C26_ExpansionIsComplete ==
    spc \in {"resolved", "checked", "built", "ran_ok", "ran_failed", "returned"} =>
        \A k \in GCODE_SETTINGS \cap DOMAIN active_settings :
            /\ Resolvable(active_settings[k]) = {}
            /\ expand_gcode_tokens(active_settings[k], TokenLookup(registry, PreExpansion))
                   = active_settings[k]

----------------------------------------------------------------------------
(* Purity of resolve_settings *)

----------------------------------------------------------------------------
(* Properties of validate *)

\* sub occurs in text
Contains(text, sub) ==
    \E i \in 1..(Len(text) - Len(sub) + 1) : SubSeq(text, i, i + Len(sub) - 1) = sub

IsNumeric(defn) == defn.setting_type \in {"float", "int"}

\* the number a candidate parses as for the type of the attribute: float(raw)
\* for a float, and for an int an integer or a numeral with a zero fraction
ParsedAs(defn, raw) ==
    LET f == PyFloatParse(raw)
    IN  IF defn.setting_type = "float" THEN f
        ELSE IF PyIntParse(raw).ok THEN PyIntParse(raw)
        ELSE IF f.ok /\ f.v.kind = "fin" /\ f.v.m % Scale = 0
        THEN [ok |-> TRUE, v |-> Fin("int", f.v.m)]
        ELSE [ok |-> FALSE, v |-> NaN]

IsBelow(val, bound) == bound # NoBound /\ Less(val, bound)
IsAbove(val, bound) == bound # NoBound /\ Less(bound, val)

\* C14: for a float or int attribute, a candidate that parses as a number of
\* that type is accepted if and only if it is not below minimum_value and not
\* above maximum_value; an absent bound imposes no limit, a value equal to a
\* bound is accepted, and a rejection names the violated bound, "minimum" or
\* "maximum", in its message.
C14_BoundsDecideAcceptance ==
    (vpc = "returned" /\ IsNumeric(vdefn) /\ ParsedAs(vdefn, raw_value).ok) =>
        LET val == ParsedAs(vdefn, raw_value).v
            below == IsBelow(val, vdefn.minimum_value)
            above == IsAbove(val, vdefn.maximum_value)
        IN  /\ validation.ok <=> (~below /\ ~above)
            /\ ~validation.ok =>
                  \/ below /\ Contains(validation.error, "minimum")
                  \/ above /\ Contains(validation.error, "maximum")

\* "4" on a float attribute with minimum 0.001 and maximum 4 is accepted with
\* no warning
C14_Witness ==
    /\ vpc = "returned"
    /\ vdefn.setting_type = "float"
    /\ vdefn.minimum_value = Bound("0.001")
    /\ vdefn.maximum_value = Bound("4")
    /\ raw_value = "4"
    /\ validation.ok
    /\ validation.coerced_value = "4"
    /\ validation.warning = ""


\* C15: in every ValidationResult validate returns, error is non-empty if and
\* only if ok is false; warning is non-empty only if ok is true; and for an
\* accepted float or int value warning is non-empty if and only if the value is
\* below minimum_value_warning or above maximum_value_warning, an absent soft
\* bound never warning.
C15_ErrorAndWarningShape ==
    vpc = "returned" =>
        /\ validation.error # "" <=> ~validation.ok
        /\ validation.warning # "" => validation.ok
        /\ (IsNumeric(vdefn) /\ validation.ok) =>
              LET val == ParsedAs(vdefn, raw_value).v
              IN  validation.warning # "" <=>
                     \/ IsBelow(val, vdefn.minimum_value_warning)
                     \/ IsAbove(val, vdefn.maximum_value_warning)

\* "0.001" on a float attribute with minimum 0.001 and recommended minimum 1
\* is accepted with a warning and no error
C15_Witness ==
    /\ vpc = "returned"
    /\ vdefn.setting_type = "float"
    /\ vdefn.minimum_value = Bound("0.001")
    /\ vdefn.minimum_value_warning = Bound("1")
    /\ raw_value = "0.001"
    /\ validation.ok
    /\ validation.error = ""
    /\ Contains(validation.warning, "below recommended minimum")


\* the outcome C16 and its amendment ask of a bool candidate whose text, as
\* compared, is given
BoolOutcome(compared) ==
    /\ validation.ok <=> compared \in _BOOL_TRUE \cup _BOOL_FALSE
    /\ compared \in _BOOL_TRUE => validation.coerced_value = "true"
    /\ compared \in _BOOL_FALSE => validation.coerced_value = "false"
    /\ ~validation.ok => validation.error # ""

\* C16 as stated: for a bool attribute, validate accepts exactly the candidates
\* that match, case-insensitively, one of true/yes/1/on or false/no/0/off,
\* normalizes them to "true" and "false" respectively, and rejects every other
\* candidate with an error.
C16_BoolSynonymsOnly ==
    (vpc = "returned" /\ vdefn.setting_type = "bool") => BoolOutcome(PyLower(raw_value))

\* C16 amended: for a bool attribute, validate accepts exactly the candidates
\* that, with surrounding whitespace removed, match case-insensitively one of
\* true/yes/1/on or false/no/0/off, normalizes them to "true" and "false"
\* respectively, and rejects every other candidate with an error.
C16_BoolSynonymsAfterStrip ==
    (vpc = "returned" /\ vdefn.setting_type = "bool") =>
        BoolOutcome(PyStrip(PyLower(raw_value)))

\* " true ", which is no synonym until its blanks are removed, is accepted
\* and stored as "true"
C16_Witness ==
    /\ vpc = "returned"
    /\ vdefn.setting_type = "bool"
    /\ raw_value = " true "
    /\ validation.ok
    /\ validation.coerced_value = "true"


\* the keys of an enum's options, and the labels of the option with a key
KeySet(defn) == {defn.options[i][1] : i \in 1..Len(defn.options)}
LabelsOf(defn, key) == {defn.options[i][2] : i \in {j \in 1..Len(defn.options) : defn.options[j][1] = key}}

SameIgnoringCase(x, y) == PyLower(x) = PyLower(y)

\* C17: for an enum attribute, validate accepts a candidate if and only if it
\* equals an option key, equals an option key case-insensitively, or equals an
\* option label case-insensitively; the normalized value of an accepted
\* candidate is a key of the options, an exact key match taking priority over
\* a case-insensitive key match, which takes priority over a label match; every
\* other candidate is rejected with a message listing the valid keys.
C17_EnumMatching ==
    (vpc = "returned" /\ vdefn.setting_type = "enum") =>
        LET keys == KeySet(vdefn)
            exact == raw_value \in keys
            by_key == \E k \in keys : SameIgnoringCase(k, raw_value)
            by_label == \E k \in keys : \E l \in LabelsOf(vdefn, k) : SameIgnoringCase(l, raw_value)
            got == validation.coerced_value
        IN  /\ validation.ok <=> (exact \/ by_key \/ by_label)
            /\ validation.ok => got \in keys
            /\ exact => got = raw_value
            /\ (~exact /\ by_key) => SameIgnoringCase(got, raw_value)
            /\ (validation.ok /\ ~exact /\ ~by_key) =>
                  \E l \in LabelsOf(vdefn, got) : SameIgnoringCase(l, raw_value)
            /\ ~validation.ok =>
                  /\ Contains(validation.error, "Valid options: ")
                  /\ \A k \in keys : Contains(validation.error, k)

\* "Brim" is the label of the option skirt and, but for its case, the key
\* brim: the key wins
C17_Witness ==
    /\ vpc = "returned"
    /\ vdefn.setting_type = "enum"
    /\ vdefn.options = <<<<"skirt", "Brim">>, <<"brim", "Skirt">>>>
    /\ raw_value = "Brim"
    /\ validation.ok
    /\ validation.coerced_value = "brim"


\* raw is an integer string, or a numeral of a finite value with a zero fraction
IsWhole(raw) ==
    \/ PyIntParse(raw).ok
    \/ LET f == PyFloatParse(raw) IN f.ok /\ f.v.kind = "fin" /\ f.v.m % Scale = 0

\* the integer a whole candidate denotes
WholeValue(raw) ==
    IF PyIntParse(raw).ok THEN PyIntParse(raw).v.m \div Scale
    ELSE PyFloatParse(raw).v.m \div Scale

\* C18: for an int attribute, an integer string and a numeric string whose
\* fractional part is exactly zero pass to the bounds check as the canonical
\* integer string ("3.0" becomes "3") and are accepted when within the hard
\* bounds; a numeric string with a non-zero fractional part and a non-numeric
\* string are rejected with an 'Expected an integer' error.
C18_IntCoercion ==
    (vpc = "returned" /\ vdefn.setting_type = "int") =>
        IF IsWhole(raw_value)
        THEN LET val == Fin("int", WholeValue(raw_value) * Scale)
             IN  /\ validation.coerced_value = ToString(WholeValue(raw_value))
                 /\ validation.ok <=> /\ ~IsBelow(val, vdefn.minimum_value)
                                      /\ ~IsAbove(val, vdefn.maximum_value)
                 /\ ~Contains(validation.error, "Expected an integer")
        ELSE /\ ~validation.ok
             /\ Contains(validation.error, "Expected an integer")
             /\ validation.coerced_value = raw_value

\* "3.0" on an int attribute with maximum 4 is accepted and stored as "3"
C18_Witness ==
    /\ vpc = "returned"
    /\ vdefn.setting_type = "int"
    /\ vdefn.maximum_value = Bound("4")
    /\ raw_value = "3.0"
    /\ validation.ok
    /\ validation.coerced_value = "3"


----------------------------------------------------------------------------
(* Validation and the emitted table *)

\* the definition of key k as validate reads it: the registries of the
\* slicing model give no unit, bounds or options
AsValidated(reg, k) ==
    ValidatorDefinition(reg.val[k].setting_type, "", NoBound, NoBound, NoBound, NoBound, <<>>)

\* the override of key k is one validate refuses for the key's attribute
IsRejected(k) ==
    /\ k \in DOMAIN overrides
    /\ InRegistry(registry, k)
    /\ ~validate(AsValidated(registry, k), overrides[k]).ok

\* C19: a user override whose value the validator rejects for its attribute
\* never appears in the table emitted for a slicing request: the settings
\* slice_file hands to the engine, which are the table resolve_settings
\* returned, hold no rejected override under its key.
C19_RejectedOverrideNeverEmitted ==
    \A i \in 1..Len(engine_input) : \A j \in 1..Len(engine_input[i]) :
        IsRejected(engine_input[i][j][1]) =>
            engine_input[i][j][2] # overrides[engine_input[i][j][1]]


----------------------------------------------------------------------------
(* Properties of _apply_overrides *)

\* the fields a layer may override, and the fields it may not
OverridableFields ==
    {"default_value", "minimum_value", "maximum_value", "minimum_value_warning",
     "maximum_value_warning", "value_expression"}
FrozenFields == {"label", "description", "setting_type", "unit", "options", "category"}

\* C20: applying a child layer's override map never changes the key set of the
\* attribute table: an override for a key the base layer did not define is a
\* no-op, and an override for a known key changes only that key's default
\* value, its four bound fields and its value expression, leaving its label,
\* description, type, unit, options and category and every other attribute
\* unchanged.
C20_OverridesFrame ==
    [][(lpc = "start" /\ lpc' = "applied") =>
          /\ DOMAIN all_settings' = DOMAIN all_settings
          /\ \A k \in DOMAIN all_settings :
                /\ k \notin DOMAIN layer => all_settings'[k] = all_settings[k]
                /\ \A f \in DOMAIN all_settings[k] \ OverridableFields :
                      all_settings'[k][f] = all_settings[k][f]
                /\ \A f \in FrozenFields : all_settings'[k][f] = all_settings[k][f]
          /\ DOMAIN layer \cap DOMAIN all_settings = {} => all_settings' = all_settings]_vars

\* a layer that gives a a new default and a new label, and names a key the
\* base never defined, has been applied: the default is the layer's, the label
\* the base's, b untouched and the unknown key absent
C20_Witness ==
    /\ lpc = "applied"
    /\ DOMAIN layer = {"a", UnknownKey}
    /\ "label" \in DOMAIN layer["a"]
    /\ layer[UnknownKey] # <<>>
    /\ DOMAIN all_settings = {"a", "b"}
    /\ all_settings["a"].default_value = JStr("skirt")
    /\ all_settings["a"].label = "Layer Height"
    /\ all_settings["b"] = BaseB

----------------------------------------------------------------------------
(* Properties of SettingsRegistry._load *)

\* the name a child layer gives field f under
GivenAs(f) == IF f = "value_expression" THEN "value" ELSE f

\* the chain leads from the document with no parent to the printer's own
\* document, each document naming the one before it as its parent
ChainIsPath ==
    /\ Len(chain) >= 1
    /\ defs[chain[1]].inherits = NoParent
    /\ chain[Len(chain)] = RemoveSuffix(printer_definition, ".def.json")
    /\ \A i \in 2..Len(chain) : defs[chain[i]].inherits = chain[i - 1]

\* the child layers of the chain that give field f of key k
SettingLayers(k, f) ==
    {i \in 2..Len(chain) :
        /\ k \in DOMAIN defs[chain[i]].overrides
        /\ GivenAs(f) \in DOMAIN defs[chain[i]].overrides[k]}

\* what the most specific of them gives
Deciding(k, f) ==
    LET top == CHOOSE i \in SettingLayers(k, f) : \A j \in SettingLayers(k, f) : j <= i
    IN  defs[chain[top]].overrides[k][GivenAs(f)]

\* a bound given as a number or as a numeric string is that number, any other
\* bound is absent
StoredBound(given) ==
    CASE given.t = "num" -> [given.v EXCEPT !.t = "float"]
      [] given.t = "str" /\ PyFloatParse(given.s).ok -> PyFloatParse(given.s).v
      [] OTHER -> NoBound

----------------------------------------------------------------------------
(* Properties of load_config *)

\* the values the section gives for field f of key k, as "k.f = value"
IniValues(k, f) == {e[2] : e \in {x \in Range(ini) : x[1] = k \o "." \o f}}

\* C22: when the BOUNDS_OVERRIDES entries have been applied, each a number,
\* the table has the keys it had; a field of an attribute holds the number of
\* the entry "key.field" when there is one and the field is one of the four
\* bound fields, and what it held before in every other case (no entry, an
\* entry with no dot, an unknown key, another field name).  The entries are
\* applied to the loaded table after the bound overrides of defaults.py, so
\* the definition validate is then given holds the number of the entry.
C22_ConfigBoundsFrame ==
    /\ [][(lpc = "bounds" /\ lpc' = "configured") =>
             /\ DOMAIN all_settings' = DOMAIN all_settings
             /\ \A k \in DOMAIN all_settings : \A f \in DOMAIN all_settings[k] :
                   all_settings'[k][f] =
                       IF f \in BOUNDS_FIELD_NAMES /\ IniValues(k, f) # {}
                       THEN Bound(CHOOSE v \in IniValues(k, f) : TRUE)
                       ELSE all_settings[k][f]]_vars
    /\ []((lpc = "configured" /\ vpc \in {"start", "returned", "raised"}) =>
             \A f \in BOUNDS_FIELD_NAMES : \A v \in IniValues(vdefn.key, f) :
                 vdefn[f] = Bound(v))

\* the schema gives a the maximum 4, defaults.py 3 and the section 2: the
\* maximum is 2, the minimum is the schema's, and 2.5 is rejected
C22_Witness ==
    /\ lpc = "configured"
    /\ vpc = "returned"
    /\ chain = <<"fdmprinter", "creality_base">>
    /\ defs["creality_base"].overrides = <<>>
    /\ bounds_overrides = [k \in {"a"} |-> [f \in {"maximum_value"} |-> JNum("3")]]
    /\ ini = <<<<"a.maximum_value", "2">>, <<"a.default_value", "2">>>>
    /\ all_settings["a"].maximum_value = Bound("2")
    /\ all_settings["a"].minimum_value = Bound("0.001")
    /\ all_settings["a"].default_value = JNum("1")
    /\ all_settings["b"] = [BaseB EXCEPT !.value_expression = "a * 2"]
    /\ raw_value = "2.5"
    /\ validation.ok = FALSE

----------------------------------------------------------------------------
(* topological_order on graphs with a cycle *)

\* C25: in the returned order a key that does not itself sit on a dependency
\* cycle appears after each of its in-graph dependencies, even when the graph
\* has a cycle elsewhere and even when the key depends, directly or
\* transitively, on a member of a cycle.
C25_OffCycleKeysInOrder ==
    tpc = "done" =>
        \A k \in GraphKeySet(dep_graph) :
            ~OnCycle(dep_graph, k) => DepsBefore(dep_graph, order, k)


----------------------------------------------------------------------------
(* Errors of evaluate_expressions along dependency chains *)

\* the non-pinned expression-bearing keys k depends on, directly or
\* transitively, whose expression raised in the run
FailedDeps(k) ==
    {d \in TransDeps(dep_graph, k) \ Pinned(registry, pinned_values) :
        d \in DOMAIN result.errors}

\* C30: errors holds every non-pinned expression-bearing key whose expression
\* raised and every non-pinned expression-bearing key that depends, directly
\* or transitively, on a key whose expression raised in the same run: no key
\* is in values with a result computed from the stale default of a dependency
\* that failed to evaluate.
C30_ErrorsFollowDependencies ==
    epc = "done" =>
        \A k \in ExprKeys(registry) \ Pinned(registry, pinned_values) :
            FailedDeps(k) # {} => (k \in DOMAIN result.errors /\ k \notin DOMAIN result.values)


----------------------------------------------------------------------------
(* Properties of build_dep_graph *)

\* every dependency the graph lists is a key of the attribute table
DepsAreTableKeys == \A k \in GraphKeySet(dep_graph) : dep_graph.val[k] \subseteq RegKeys(registry)

\* C27 as stated: the keys of the dependency graph are only attributes that
\* have an expression and at least one dependency that is a key of the
\* attribute table; an attribute with no expression, and one whose expression
\* references no table key, is absent; every dependency listed is a key of
\* the attribute table.
C27_OnlyKeysWithTableDeps ==
    epc \in {"loop", "done"} =>
        /\ \A k \in GraphKeySet(dep_graph) :
              HasExpression(registry, k) /\ dep_graph.val[k] # {}
        /\ DepsAreTableKeys

\* C27 amended: the keys of the dependency graph are exactly the attributes
\* that have an expression; an attribute with no expression is absent, an
\* attribute whose expression references no table key is present with an
\* empty dependency set, and every dependency listed is a key of the
\* attribute table.
C27_KeysAreExpressionBearers ==
    epc \in {"loop", "done"} =>
        /\ GraphKeySet(dep_graph) = ExprKeys(registry)
        /\ \A k \in ExprKeys(registry) :
              extract_deps(registry.val[k].value_expression) \cap RegKeys(registry) = {}
                 => dep_graph.val[k] = {}
        /\ DepsAreTableKeys

\* b = mystery reads no table key and c = 2 is a constant: both are keys of
\* the graph with no dependency, and the flag a, with no expression, is none
C27_Witness ==
    /\ epc = "done"
    /\ registry.val["b"].value_expression = "mystery"
    /\ registry.val["c"].value_expression = "2"
    /\ dep_graph.keys = <<"b", "c">>
    /\ dep_graph.val["b"] = {}
    /\ dep_graph.val["c"] = {}


----------------------------------------------------------------------------
(* Bool attributes pinned to the validator's canonical strings *)

\* the string the run fixes key k to: the user override, else the config default
FixedTo(k) ==
    IF k \in DOMAIN pinned_values THEN pinned_values[k]
    ELSE IF k \in DOMAIN config_defaults THEN config_defaults[k]
    ELSE "<not fixed>"

\* C28: a bool attribute pinned, by a config default or a user override, to
\* the canonical string "false" has the boolean value false in the evaluation
\* namespace, and pinned to "true" the value true; an expression
\* `A if flag else B` over a flag pinned to "false" evaluates to B.
C28_CanonicalBoolsRead ==
    epc \in {"loop", "done"} =>
        /\ FixedTo("a") = "false" => namespace["a"] = BoolV(FALSE)
        /\ FixedTo("a") = "true" => namespace["a"] = BoolV(TRUE)
        /\ (/\ epc = "done"
            /\ FixedTo("a") = "false"
            /\ registry.val["b"].value_expression = "3 if a else 7"
            /\ "b" \notin DOMAIN pinned_values)
           => ("b" \in DOMAIN result.values /\ result.values["b"] = FloatV(7))


----------------------------------------------------------------------------
(* Totality of validate *)

\* the candidate denotes an infinite or not-a-number value
IsNonFinite(raw) == PyFloatParse(raw).ok /\ PyFloatParse(raw).v.kind # "fin"

\* C29: validate is total: for every definition of the five types and every
\* candidate it returns a ValidationResult and never raises, and for an int
\* attribute a candidate that denotes an infinite or not-a-number value
\* ("inf", "1e999", "nan") yields ok = false with an error message.
C29_ValidateIsTotal ==
    vpc # "start" =>
        /\ vpc = "returned"
        /\ validation.raised = ""
        /\ (vdefn.setting_type = "int" /\ IsNonFinite(raw_value)) =>
              (~validation.ok /\ validation.error # "")


----------------------------------------------------------------------------
(* The scale keys and the config defaults in resolve_settings *)

\* C23: the table resolve_settings returns never holds any of the keys scale,
\* scale_x, scale_y, scale_z, whether the key comes from the config defaults,
\* from the user overrides, from a computed expression or from forced_keys.
C23_ScaleKeysStripped ==
    rpc = "done" => DOMAIN resolved \cap SCALE_KEYS = {}

\* the scale key is overridden by the user and forced, and the returned table
\* holds the other override but not the scale key
C23_Witness ==
    /\ rpc = "done"
    /\ ScaleKey \in DOMAIN overrides
    /\ ScaleKey \in forced_keys
    /\ ScaleKey \in DOMAIN pinned_values
    /\ ScaleKey \notin DOMAIN resolved


\* the registry keys the config-default map fixes and no user override replaces
ConfigPinned == (DOMAIN config_defaults \cap RegKeys(registry)) \ DOMAIN overrides

\* the value of "a + 1" when a holds its config string, coerced to a's type
OverConfigA ==
    PyEval("a + 1",
           [k \in {"a"} |-> _coerce(StrV(config_defaults["a"]), registry.val["a"].setting_type)],
           EvalGlobals)

\* C24: within resolve_settings a key of the config-default map is pinned like
\* a user override: with an expression or not it is not evaluated and is in
\* neither values nor errors, an expression that reads it sees the config
\* value, and the emitted table carries the config string for it unless it
\* is pruned for equalling the schema default.
C24_ConfigDefaultsPinned ==
    rpc \in {"evaluated", "merged", "done"} =>
        /\ \A k \in ConfigPinned :
              /\ k \notin DOMAIN result.values
              /\ k \notin DOMAIN result.errors
              /\ (rpc = "done" /\ k \notin GCODE_SETTINGS \cup SCALE_KEYS) =>
                    IF k \in DOMAIN resolved THEN resolved[k] = config_defaults[k]
                    ELSE config_defaults[k] = PyStr(registry.val[k].default_value)
        /\ (/\ "a" \in ConfigPinned
            /\ registry.val["b"].value_expression = "a + 1"
            /\ "b" \notin DOMAIN config_defaults \cup DOMAIN overrides
            /\ OverConfigA.ok)
           => /\ "b" \in DOMAIN result.values
              /\ result.values["b"] = _coerce(OverConfigA.v, registry.val["b"].setting_type)

\* config.ini gives b, which carries the expression 10 // a, the value "5.0":
\* b is not evaluated and the table carries "5.0" for it
C24_Witness ==
    /\ rpc = "done"
    /\ registry.val["b"].value_expression = "10 // a"
    /\ registry.val["b"].setting_type = "int"
    /\ config_defaults = [k \in {"b"} |-> "5.0"]
    /\ overrides = <<>>
    /\ result.values = <<>>
    /\ result.errors = <<>>
    /\ resolved = [k \in {"b"} |-> "5.0"]

============================================================================
